---- MODULE Spec2Model ----
(***************************************************************************)
(* Model of the context store (src/context/llm_context.rs, ContextManager) *)
(* and of the request processor (src/processing/concurrent_processor.rs,  *)
(* RequestProcessor).                                                      *)
(*                                                                         *)
(* Every action is one run of a handler between two suspension points     *)
(* (`.await` on a lock or on the semaphore).  A tokio RwLock guard that is *)
(* taken and dropped without an await in between is folded into the       *)
(* action that uses it; a guard that lives across an await is a variable. *)
(***************************************************************************)
EXTENDS Integers, Sequences, FiniteSets, TLC

(***************************************************************************)
(* Bounds of the model.                                                    *)
(***************************************************************************)
MaxIds == 2          \* number of Uuid::new_v4() values handed out
MaxVersion == 2      \* updates stop once a record has this version
MaxUpdates == 2      \* updates of one record in the runs of the writers alone
TickSeconds == 20    \* granularity of the clock, in seconds
MaxTicks == 1        \* the clock stops after this many ticks
ContextTtl == 10     \* ContextManager::new(_, context_ttl_seconds)
PoolSize == 1        \* permits of request_semaphore
MaxCandidates == 3   \* length of the candidate lists handed to the ranking
MaxCalls == 4        \* process_request calls made in one behaviour
ProcMaxTicks == 4    \* ticks of the clock in the request processor's runs

Tasks == {"t1", "t2"}
Sessions == {"s1", "s2"}
UserIds == {"u1", "u2"}
Reqs == {"r1", "r2", "r3"}     \* concurrent process_request calls
Domains == {"d1"}

None == "none"       \* no task, no method
NoneOpt == <<>>      \* Option::None
Some(x) == <<x>>     \* Option::Some(x)
UnknownId == MaxIds + 1   \* a Uuid no create_context ever returned

VARIABLES
    now,               \* Utc::now(), seconds
    nextId,            \* the next Uuid::new_v4()
    contexts,          \* ContextManager.contexts: id -> LLMContext
    session_contexts,  \* ContextManager.session_contexts: key -> Vec<Uuid>
    user_contexts,     \* ContextManager.user_contexts
    domain_contexts,   \* ContextManager.domain_contexts
    ctxWriter,         \* task holding contexts.write() across an await
    idxReaders,        \* per index, tasks holding its read() across an await
    op,                \* per task: the ContextManager method it is running
    pc,                \* per task: the await it is suspended at
    cur,               \* per task: the `context` local handed to the index helpers
    lnow,              \* per task: `now` of cleanup_expired_contexts
    expired,           \* per task: `expired_ids` of cleanup_expired_contexts
    ret,               \* the Result that a mutating call returned in the last step
    known,             \* ids that some caller has been given
    snap,              \* history: `contexts` as the running cleanup found it
    config,            \* RequestProcessor.config
    available_permits, \* request_semaphore.available_permits()
    waiters,           \* request_semaphore's queue of pending acquire() calls
    user_request_counts, \* RequestProcessor.user_request_counts
    rpc,               \* per call: the await process_request is suspended at
    ruser,             \* per call: its user_id argument
    called_at,         \* history: per call, the time process_request was called
    armed_at,          \* per call: the time its two timeout() futures started
    calls,             \* number of process_request calls made so far
    rate_log,          \* history: per user, <<time, passed>> of each rate check
    sel_config,        \* ContextSelector.config
    query_context_cache, \* ContextSelector.query_context_cache
    sel_args,          \* per task: the arguments of its select_contexts call
    candidate_contexts \* per task: `candidate_contexts` of select_contexts

storeVars == <<nextId, contexts, session_contexts, user_contexts,
               domain_contexts, ctxWriter, idxReaders, op, pc, cur, lnow,
               expired, known, snap>>

procVars == <<config, available_permits, waiters, user_request_counts, rpc,
              ruser, called_at, armed_at, calls, rate_log>>

selVars == <<sel_config, query_context_cache, sel_args, candidate_contexts>>

vars == <<now, ret, storeVars, procVars, selVars>>

(***************************************************************************)
(* Helpers on maps and vectors.                                            *)
(***************************************************************************)
RemoveKey(m, k) == [x \in DOMAIN m \ {k} |-> m[x]]

Retain(ids, id) == SelectSeq(ids, LAMBDA x : x # id)

Elems(seq) == {seq[i] : i \in 1..Len(seq)}

\* entry(key).or_insert_with(Vec::new).push(id)
EntryPush(index, key, id) ==
    IF key \in DOMAIN index
    THEN [index EXCEPT ![key] = Append(@, id)]
    ELSE index @@ (key :> <<id>>)

\* if let Some(ids) = index.get_mut(key) { ids.retain(|x| *x != id) }
EntryRetain(index, key, id) ==
    IF key \in DOMAIN index
    THEN [index EXCEPT ![key] = Retain(@, id)]
    ELSE index

(***************************************************************************)
(* The read paths.                                                         *)
(***************************************************************************)
\* the comparison of the expiry check the other way round
IsExpiredInverted(ctx, t) == t < ctx.expires_at

\* if let Some(expires_at) = ctx.expires_at { if Utc::now() > expires_at ..
IsExpired(ctx, t) == t > ctx.expires_at

GetContext(id) ==
    IF id \in DOMAIN contexts
    THEN IF IsExpired(contexts[id], now) THEN NoneOpt ELSE Some(contexts[id])
    ELSE NoneOpt

\* context_ids.iter().filter_map(|id| contexts.get(id) ... ).collect()
RECURSIVE Resolve(_)
Resolve(ids) ==
    IF ids = <<>> THEN <<>>
    ELSE LET id == Head(ids)
             rest == Resolve(Tail(ids))
         IN IF id \in DOMAIN contexts /\ ~IsExpired(contexts[id], now)
            THEN <<contexts[id]>> \o rest
            ELSE rest

GetSessionContexts(key) ==
    IF key \in DOMAIN session_contexts THEN Resolve(session_contexts[key]) ELSE <<>>

GetUserContexts(key) ==
    IF key \in DOMAIN user_contexts THEN Resolve(user_contexts[key]) ELSE <<>>

GetDomainContexts(key) ==
    IF key \in DOMAIN domain_contexts THEN Resolve(domain_contexts[key]) ELSE <<>>

IdsOf(ctxs) == [i \in 1..Len(ctxs) |-> ctxs[i].id]

\* get_stats().total_contexts
TotalContexts == Cardinality(DOMAIN contexts)

(***************************************************************************)
(* Initial state: ContextManager::new.                                     *)
(***************************************************************************)
NoContext == [id |-> UnknownId]
NoRet == [task |-> None, val |-> <<>>]

StoreInit ==
    /\ nextId = 1
    /\ contexts = <<>>
    /\ session_contexts = <<>>
    /\ user_contexts = <<>>
    /\ domain_contexts = <<>>
    /\ ctxWriter = None
    /\ idxReaders = [k \in {"session", "user", "domain"} |-> {}]
    /\ op = [t \in Tasks |-> None]
    /\ pc = [t \in Tasks |-> "idle"]
    /\ cur = [t \in Tasks |-> NoContext]
    /\ lnow = [t \in Tasks |-> 0]
    /\ expired = [t \in Tasks |-> {}]
    /\ ret = NoRet
    /\ known = {}
    /\ snap = <<>>

\* RequestProcessorConfig::default(); the pool of 100 permits is scaled down
\* to PoolSize
DefaultConfig ==
    [max_concurrent_requests |-> PoolSize,
     request_timeout_seconds |-> 30,
     context_load_timeout_seconds |-> 10,
     context_selection_timeout_seconds |-> 5,
     enable_rate_limiting |-> TRUE,
     max_requests_per_minute |-> 1000]

\* RequestProcessor::new, but for `config`
ProcInit ==
    /\ available_permits = PoolSize
    /\ waiters = <<>>
    /\ user_request_counts = <<>>
    /\ rpc = [r \in Reqs |-> "idle"]
    /\ ruser = [r \in Reqs |-> None]
    /\ called_at = [r \in Reqs |-> 0]
    /\ armed_at = [r \in Reqs |-> 0]
    /\ calls = 0
    /\ rate_log = [u \in UserIds |-> <<>>]

\* ContextSelectorConfig::default()
DefaultSelectorConfig ==
    [max_contexts_to_return |-> 5,
     min_relevance_score |-> <<3, 10>>,
     selection_strategy |-> "Hybrid",
     enable_cache |-> TRUE,
     cache_ttl_seconds |-> 300]

NoArgs == [user_id |-> None, session_id |-> None, query |-> None,
           domain |-> None]

\* ContextSelector::new, but for `config`
SelInit ==
    /\ query_context_cache = <<>>
    /\ sel_args = [t \in Tasks |-> NoArgs]
    /\ candidate_contexts = [t \in Tasks |-> <<>>]

Init ==
    /\ now = 0
    /\ StoreInit
    /\ config = DefaultConfig /\ ProcInit
    /\ sel_config = DefaultSelectorConfig /\ SelInit

\* the call of task t returns value v
Return(t, v) ==
    /\ op' = [op EXCEPT ![t] = None]
    /\ pc' = [pc EXCEPT ![t] = "idle"]
    /\ ret' = [task |-> t, val |-> v]

Idle(t) == pc[t] = "idle"

(***************************************************************************)
(* create_context: builds the record, inserts it under contexts.write(),   *)
(* drops that guard, then runs update_indexes.                             *)
(***************************************************************************)
CreateContext(t, s, u, d, data, pri) ==
    /\ Idle(t)
    /\ nextId <= MaxIds
    /\ ctxWriter = None
    /\ LET context == [id |-> nextId, session_id |-> s, user_id |-> u,
                       domain |-> d, context_data |-> data,
                       metadata |-> "empty", created_at |-> now,
                       updated_at |-> now, expires_at |-> now + ContextTtl,
                       priority |-> pri, version |-> 1, tags |-> <<>>,
                       active |-> TRUE]
       IN /\ contexts' = (nextId :> context) @@ contexts
          /\ cur' = [cur EXCEPT ![t] = context]
    /\ nextId' = nextId + 1
    /\ op' = [op EXCEPT ![t] = "create"]
    /\ pc' = [pc EXCEPT ![t] = "upd_session"]
    /\ ret' = NoRet
    /\ UNCHANGED <<selVars, procVars, now, session_contexts, user_contexts, domain_contexts,
                   ctxWriter, idxReaders, lnow, expired, known, snap>>

(***************************************************************************)
(* update_context: takes contexts.write() and keeps it to the end of the   *)
(* function, mutates the record in place, then runs update_indexes.        *)
(***************************************************************************)
\* the fields given are applied, updated_at is set, the version is kept
UpdatedKeepingVersion(c0, data, meta, pri) ==
    LET c1 == IF data # NoneOpt THEN [c0 EXCEPT !.context_data = data[1]] ELSE c0
        c2 == IF meta # NoneOpt THEN [c1 EXCEPT !.metadata = meta[1]] ELSE c1
        c3 == IF pri # NoneOpt THEN [c2 EXCEPT !.priority = pri[1]] ELSE c2
    IN [c3 EXCEPT !.updated_at = now]

\* an update that also renews the record's time to live
UpdatedRenewingExpiry(c0, data, meta, pri) ==
    [UpdatedKeepingVersion(c0, data, meta, pri)
        EXCEPT !.version = @ + 1, !.expires_at = now + ContextTtl]

\* if let Some(..) = context_data / metadata / priority { .. };
\* context.updated_at = Utc::now(); context.version += 1
Updated(c0, data, meta, pri) ==
    LET c1 == IF data # NoneOpt THEN [c0 EXCEPT !.context_data = data[1]] ELSE c0
        c2 == IF meta # NoneOpt THEN [c1 EXCEPT !.metadata = meta[1]] ELSE c1
        c3 == IF pri # NoneOpt THEN [c2 EXCEPT !.priority = pri[1]] ELSE c2
    IN [c3 EXCEPT !.updated_at = now, !.version = @ + 1]

UpdateContext(t, id, data, meta, pri) ==
    /\ Idle(t)
    /\ ctxWriter = None
    /\ IF id \in DOMAIN contexts
       THEN /\ LET context == Updated(contexts[id], data, meta, pri)
               IN /\ contexts' = [contexts EXCEPT ![id] = context]
                  /\ cur' = [cur EXCEPT ![t] = context]
            /\ ctxWriter' = t
            /\ op' = [op EXCEPT ![t] = "update"]
            /\ pc' = [pc EXCEPT ![t] = "upd_session"]
            /\ ret' = NoRet
       ELSE /\ Return(t, <<"Err", "Context not found">>)
            /\ UNCHANGED <<contexts, cur, ctxWriter>>
    /\ UNCHANGED <<selVars, procVars, now, nextId, session_contexts, user_contexts,
                   domain_contexts, idxReaders, lnow, expired, known, snap>>

(***************************************************************************)
(* update_indexes: three write guards taken one after the other, each      *)
(* pushing context.id onto the list of the context's key.                  *)
(***************************************************************************)
UpdateIndexesSession(t) ==
    /\ pc[t] = "upd_session"
    /\ idxReaders["session"] = {}
    /\ session_contexts' = EntryPush(session_contexts, cur[t].session_id, cur[t].id)
    /\ pc' = [pc EXCEPT ![t] = "upd_user"]
    /\ ret' = NoRet
    /\ UNCHANGED <<selVars, procVars, now, nextId, contexts, user_contexts, domain_contexts,
                   ctxWriter, idxReaders, op, cur, lnow, expired, known, snap>>

UpdateIndexesUser(t) ==
    /\ pc[t] = "upd_user"
    /\ idxReaders["user"] = {}
    /\ user_contexts' = EntryPush(user_contexts, cur[t].user_id, cur[t].id)
    /\ pc' = [pc EXCEPT ![t] = "upd_domain"]
    /\ ret' = NoRet
    /\ UNCHANGED <<selVars, procVars, now, nextId, contexts, session_contexts, domain_contexts,
                   ctxWriter, idxReaders, op, cur, lnow, expired, known, snap>>

\* the last push; the caller then returns (create: Ok(context), update:
\* Ok(()) and the contexts guard is dropped)
UpdateIndexesDomain(t) ==
    /\ pc[t] = "upd_domain"
    /\ idxReaders["domain"] = {}
    /\ domain_contexts' = EntryPush(domain_contexts, cur[t].domain, cur[t].id)
    /\ IF op[t] = "create"
       THEN /\ Return(t, <<"Ok", cur[t].id>>)
            /\ known' = known \cup {cur[t].id}
            /\ UNCHANGED ctxWriter
       ELSE /\ Return(t, <<"Ok">>)
            /\ ctxWriter' = None
            /\ UNCHANGED known
    /\ cur' = [cur EXCEPT ![t] = NoContext]
    /\ UNCHANGED <<selVars, procVars, now, nextId, contexts, session_contexts, user_contexts,
                   idxReaders, lnow, expired, snap>>

(***************************************************************************)
(* delete_context: takes contexts.write() and keeps it to the end of the   *)
(* function, removes the record, then runs remove_from_indexes.            *)
(***************************************************************************)
\* delete_context that answers Ok(()) for an id it does not hold
DeleteContextIdempotent(t, id) ==
    /\ Idle(t)
    /\ ctxWriter = None
    /\ IF id \in DOMAIN contexts
       THEN /\ contexts' = RemoveKey(contexts, id)
            /\ cur' = [cur EXCEPT ![t] = contexts[id]]
            /\ ctxWriter' = t
            /\ op' = [op EXCEPT ![t] = "delete"]
            /\ pc' = [pc EXCEPT ![t] = "rm_session"]
            /\ ret' = NoRet
       ELSE /\ Return(t, <<"Ok">>)
            /\ UNCHANGED <<contexts, cur, ctxWriter>>
    /\ UNCHANGED <<selVars, procVars, now, nextId, session_contexts, user_contexts,
                   domain_contexts, idxReaders, lnow, expired, known, snap>>

DeleteContext(t, id) ==
    /\ Idle(t)
    /\ ctxWriter = None
    /\ IF id \in DOMAIN contexts
       THEN /\ contexts' = RemoveKey(contexts, id)
            /\ cur' = [cur EXCEPT ![t] = contexts[id]]
            /\ ctxWriter' = t
            /\ op' = [op EXCEPT ![t] = "delete"]
            /\ pc' = [pc EXCEPT ![t] = "rm_session"]
            /\ ret' = NoRet
       ELSE /\ Return(t, <<"Err", "Context not found">>)
            /\ UNCHANGED <<contexts, cur, ctxWriter>>
    /\ UNCHANGED <<selVars, procVars, now, nextId, session_contexts, user_contexts,
                   domain_contexts, idxReaders, lnow, expired, known, snap>>

(***************************************************************************)
(* cleanup_expired_contexts: reads the clock, then waits for               *)
(* contexts.write(), collects the expired ids and removes them one by one, *)
(* each followed by remove_from_indexes.  The guard is kept to the end.    *)
(***************************************************************************)
CleanupBegin(t) ==
    /\ Idle(t)
    /\ lnow' = [lnow EXCEPT ![t] = now]
    /\ op' = [op EXCEPT ![t] = "cleanup"]
    /\ pc' = [pc EXCEPT ![t] = "gc_lock"]
    /\ ret' = NoRet
    /\ UNCHANGED <<selVars, procVars, now, nextId, contexts, session_contexts, user_contexts,
                   domain_contexts, ctxWriter, idxReaders, cur, expired,
                   known, snap>>

\* expired_ids: the ids whose expires_at lies before the `now` read earlier
ExpiredIds(t) == {id \in DOMAIN contexts : IsExpired(contexts[id], lnow[t])}

CleanupLock(t) ==
    /\ pc[t] = "gc_lock"
    /\ ctxWriter = None
    /\ ctxWriter' = t
    /\ expired' = [expired EXCEPT ![t] = ExpiredIds(t)]
    /\ snap' = contexts
    /\ pc' = [pc EXCEPT ![t] = "gc_loop"]
    /\ ret' = NoRet
    /\ UNCHANGED <<selVars, procVars, now, nextId, contexts, session_contexts, user_contexts,
                   domain_contexts, idxReaders, op, cur, lnow, known>>

\* one turn of `for id in expired_ids` (the order is that of HashMap::iter),
\* or the end of the loop: Ok(()) and the guard is dropped
CleanupNext(t) ==
    /\ pc[t] = "gc_loop"
    /\ IF expired[t] = {}
       THEN /\ Return(t, <<"Ok">>)
            /\ ctxWriter' = None
            /\ lnow' = [lnow EXCEPT ![t] = 0]
            /\ snap' = <<>>
            /\ UNCHANGED <<contexts, cur, expired>>
       ELSE /\ \E id \in expired[t] :
                 /\ contexts' = RemoveKey(contexts, id)
                 /\ cur' = [cur EXCEPT ![t] = contexts[id]]
                 /\ expired' = [expired EXCEPT ![t] = @ \ {id}]
            /\ pc' = [pc EXCEPT ![t] = "rm_session"]
            /\ ret' = NoRet
            /\ UNCHANGED <<ctxWriter, op, lnow, snap>>
    /\ UNCHANGED <<selVars, procVars, now, nextId, session_contexts, user_contexts,
                   domain_contexts, idxReaders, known>>

(***************************************************************************)
(* remove_from_indexes: three write guards taken one after the other, each *)
(* dropping every occurrence of context.id from the list of its key.       *)
(***************************************************************************)
RemoveFromIndexesSession(t) ==
    /\ pc[t] = "rm_session"
    /\ idxReaders["session"] = {}
    /\ session_contexts' = EntryRetain(session_contexts, cur[t].session_id, cur[t].id)
    /\ pc' = [pc EXCEPT ![t] = "rm_user"]
    /\ ret' = NoRet
    /\ UNCHANGED <<selVars, procVars, now, nextId, contexts, user_contexts, domain_contexts,
                   ctxWriter, idxReaders, op, cur, lnow, expired, known, snap>>

RemoveFromIndexesUser(t) ==
    /\ pc[t] = "rm_user"
    /\ idxReaders["user"] = {}
    /\ user_contexts' = EntryRetain(user_contexts, cur[t].user_id, cur[t].id)
    /\ pc' = [pc EXCEPT ![t] = "rm_domain"]
    /\ ret' = NoRet
    /\ UNCHANGED <<selVars, procVars, now, nextId, contexts, session_contexts, domain_contexts,
                   ctxWriter, idxReaders, op, cur, lnow, expired, known, snap>>

\* the last retain; delete_context then returns Ok(()) and drops the
\* contexts guard, cleanup_expired_contexts goes on with its loop
RemoveFromIndexesDomain(t) ==
    /\ pc[t] = "rm_domain"
    /\ idxReaders["domain"] = {}
    /\ domain_contexts' = EntryRetain(domain_contexts, cur[t].domain, cur[t].id)
    /\ IF op[t] = "delete"
       THEN /\ Return(t, <<"Ok">>)
            /\ ctxWriter' = None
       ELSE /\ pc' = [pc EXCEPT ![t] = "gc_loop"]
            /\ ret' = NoRet
            /\ UNCHANGED <<ctxWriter, op>>
    /\ cur' = [cur EXCEPT ![t] = NoContext]
    /\ UNCHANGED <<selVars, procVars, now, nextId, contexts, session_contexts, user_contexts,
                   idxReaders, lnow, expired, known, snap>>

(***************************************************************************)
(* The readers.  get_context and get_stats hold contexts.read() for one    *)
(* step.  get_*_contexts take the read guard of their index, and (when the *)
(* key is there) wait for contexts.read() while holding it.  What a read   *)
(* returns is GetContext, TotalContexts, Get*Contexts of the state it runs *)
(* in; the ids it hands to its caller are added to `known`.                *)
(***************************************************************************)
\* get_context that removes the expired record it comes across
GetContextReaping(t, id) ==
    /\ Idle(t)
    /\ ctxWriter = None
    /\ contexts' = IF id \in DOMAIN contexts /\ IsExpired(contexts[id], now)
                   THEN RemoveKey(contexts, id)
                   ELSE contexts
    /\ ret' = NoRet
    /\ UNCHANGED <<selVars, procVars, now, nextId, session_contexts, user_contexts,
                   domain_contexts, ctxWriter, idxReaders, op, pc, cur, lnow,
                   expired, known, snap>>

GetContextCall(t, id) ==
    /\ Idle(t)
    /\ ctxWriter = None
    /\ ret' = NoRet
    /\ UNCHANGED <<selVars, procVars, now, nextId, contexts, session_contexts, user_contexts,
                   domain_contexts, ctxWriter, idxReaders, op, pc, cur, lnow,
                   expired, known, snap>>

GetStats(t) ==
    /\ Idle(t)
    /\ ctxWriter = None
    /\ ret' = NoRet
    /\ UNCHANGED <<selVars, procVars, now, nextId, contexts, session_contexts, user_contexts,
                   domain_contexts, ctxWriter, idxReaders, op, pc, cur, lnow,
                   expired, known, snap>>

IndexOf(kind) ==
    CASE kind = "session" -> session_contexts
      [] kind = "user" -> user_contexts
      [] kind = "domain" -> domain_contexts

KeysOf(kind) ==
    CASE kind = "session" -> Sessions
      [] kind = "user" -> UserIds
      [] kind = "domain" -> Domains

\* the first half of get_session_contexts / get_user_contexts /
\* get_domain_contexts: index.read(), then either Vec::new() or the wait
\* for contexts.read()
GetByIndexBegin(t, kind, key) ==
    /\ Idle(t)
    /\ IF key \in DOMAIN IndexOf(kind)
       THEN /\ idxReaders' = [idxReaders EXCEPT ![kind] = @ \cup {t}]
            /\ op' = [op EXCEPT ![t] = kind]
            /\ pc' = [pc EXCEPT ![t] = "rd_contexts"]
            /\ cur' = [cur EXCEPT ![t] = [id |-> UnknownId, key |-> key]]
            /\ ret' = NoRet
       ELSE /\ ret' = NoRet
            /\ UNCHANGED <<idxReaders, cur, op, pc>>
    /\ UNCHANGED <<selVars, procVars, now, nextId, contexts, session_contexts, user_contexts,
                   domain_contexts, ctxWriter, lnow, expired, known, snap>>

\* the second half: contexts.read(), the filter_map, both guards dropped
GetByIndexResolve(t) ==
    /\ pc[t] = "rd_contexts"
    /\ ctxWriter = None
    /\ LET found == Resolve(IndexOf(op[t])[cur[t].key])
       IN known' = known \cup Elems(IdsOf(found))
    /\ op' = [op EXCEPT ![t] = None]
    /\ pc' = [pc EXCEPT ![t] = "idle"]
    /\ ret' = NoRet
    /\ idxReaders' = [idxReaders EXCEPT ![op[t]] = @ \ {t}]
    /\ cur' = [cur EXCEPT ![t] = NoContext]
    /\ UNCHANGED <<selVars, procVars, now, nextId, contexts, session_contexts, user_contexts,
                   domain_contexts, ctxWriter, lnow, expired, snap>>

(***************************************************************************)
(* The clock.                                                              *)
(***************************************************************************)
Tick ==
    /\ now < MaxTicks * TickSeconds
    /\ now' = now + TickSeconds
    /\ ret' = NoRet
    /\ UNCHANGED <<storeVars, procVars, selVars>>

\* the arguments callers pass: <<session_id, user_id, domain, context_data,
\* priority>> to create_context, <<context_data, metadata, priority>> to
\* update_context
CreateInputs == {<<"s1", "u1", "d1", "a", 3>>, <<"s2", "u1", "d1", "a", 11>>}
UpdateInputs == {<<Some("b"), NoneOpt, Some(11)>>}
\* the same with an update of the metadata alone
FieldUpdateInputs == UpdateInputs \cup {<<NoneOpt, Some("m"), NoneOpt>>}
CallIds == known \cup {UnknownId}

\* the cap on the updates of one record that keeps the runs finite
VersionBelow(id, max) == id \in DOMAIN contexts => contexts[id].version < max

Next ==
    \/ Tick
    \/ \E t \in Tasks, in \in CreateInputs :
          CreateContext(t, in[1], in[2], in[3], in[4], in[5])
    \/ \E t \in Tasks, id \in CallIds, in \in UpdateInputs :
          VersionBelow(id, MaxVersion) /\ UpdateContext(t, id, in[1], in[2], in[3])
    \/ \E t \in Tasks : UpdateIndexesSession(t)
    \/ \E t \in Tasks : UpdateIndexesUser(t)
    \/ \E t \in Tasks : UpdateIndexesDomain(t)
    \/ \E t \in Tasks, id \in CallIds : DeleteContext(t, id)
    \/ \E t \in Tasks : CleanupBegin(t)
    \/ \E t \in Tasks : CleanupLock(t)
    \/ \E t \in Tasks : CleanupNext(t)
    \/ \E t \in Tasks : RemoveFromIndexesSession(t)
    \/ \E t \in Tasks : RemoveFromIndexesUser(t)
    \/ \E t \in Tasks : RemoveFromIndexesDomain(t)
    \/ \E t \in Tasks, id \in CallIds : GetContextCall(t, id)
    \/ \E t \in Tasks : GetStats(t)
    \/ \E t \in Tasks, kind \in {"session", "user", "domain"} :
          \E key \in KeysOf(kind) : GetByIndexBegin(t, kind, key)
    \/ \E t \in Tasks : GetByIndexResolve(t)

Spec == Init /\ [][Next]_vars

(***************************************************************************)
(* The writers alone: create_context, update_context and delete_context    *)
(* called by concurrent tasks, with room for several updates of one        *)
(* context.                                                                *)
(***************************************************************************)
NextWrite ==
    \/ Tick
    \/ \E t \in Tasks, in \in CreateInputs :
          CreateContext(t, in[1], in[2], in[3], in[4], in[5])
    \/ \E t \in Tasks, id \in CallIds, in \in UpdateInputs :
          VersionBelow(id, MaxUpdates + 1) /\ UpdateContext(t, id, in[1], in[2], in[3])
    \/ \E t \in Tasks : UpdateIndexesSession(t)
    \/ \E t \in Tasks : UpdateIndexesUser(t)
    \/ \E t \in Tasks : UpdateIndexesDomain(t)
    \/ \E t \in Tasks, id \in CallIds : DeleteContext(t, id)
    \/ \E t \in Tasks : RemoveFromIndexesSession(t)
    \/ \E t \in Tasks : RemoveFromIndexesUser(t)
    \/ \E t \in Tasks : RemoveFromIndexesDomain(t)

SpecWrite == Init /\ [][NextWrite]_vars

(***************************************************************************)
(* One caller: every call returns before the next one is made.             *)
(***************************************************************************)
Caller == CHOOSE t \in Tasks : TRUE

NextSeq ==
    \/ Tick
    \/ \E in \in CreateInputs :
          CreateContext(Caller, in[1], in[2], in[3], in[4], in[5])
    \/ \E id \in CallIds, in \in FieldUpdateInputs :
          VersionBelow(id, MaxUpdates + 1) /\ UpdateContext(Caller, id, in[1], in[2], in[3])
    \/ UpdateIndexesSession(Caller)
    \/ UpdateIndexesUser(Caller)
    \/ UpdateIndexesDomain(Caller)
    \/ \E id \in CallIds : DeleteContext(Caller, id)
    \/ CleanupBegin(Caller)
    \/ CleanupLock(Caller)
    \/ CleanupNext(Caller)
    \/ RemoveFromIndexesSession(Caller)
    \/ RemoveFromIndexesUser(Caller)
    \/ RemoveFromIndexesDomain(Caller)
    \/ \E kind \in {"session", "user", "domain"} :
          \E key \in KeysOf(kind) : GetByIndexBegin(Caller, kind, key)
    \/ GetByIndexResolve(Caller)

SpecSeq == Init /\ [][NextSeq]_vars

(***************************************************************************)
(* The request processor.  Times are in seconds.                           *)
(***************************************************************************)
RateWindow == 60     \* chrono::Duration::minutes(1)

\* the configurations handed to update_config before the calls start
ProcConfigs ==
    {DefaultConfig,
     [DefaultConfig EXCEPT !.request_timeout_seconds = 40,
                           !.context_selection_timeout_seconds = 20,
                           !.max_requests_per_minute = 1],
     [DefaultConfig EXCEPT !.request_timeout_seconds = 20,
                           !.context_selection_timeout_seconds = 40,
                           !.max_requests_per_minute = 2],
     [DefaultConfig EXCEPT !.request_timeout_seconds = 20,
                           !.context_selection_timeout_seconds = 20,
                           !.enable_rate_limiting = FALSE]}

InitProc ==
    /\ now = 0
    /\ StoreInit
    /\ config \in ProcConfigs
    /\ ProcInit
    /\ sel_config = DefaultSelectorConfig /\ SelInit

\* check_rate_limit that compares the count whatever the age of last_seen
CheckRateLimitWithoutWindow(user_id) ==
    IF user_id \in DOMAIN user_request_counts
       /\ user_request_counts[user_id][1] >= config.max_requests_per_minute
    THEN "RateLimitExceeded"
    ELSE "Ok"

\* check_rate_limit: reads the table, never writes it
CheckRateLimit(user_id) ==
    LET window_start == now - RateWindow
    IN IF user_id \in DOMAIN user_request_counts
       THEN LET count == user_request_counts[user_id][1]
                last_request_time == user_request_counts[user_id][2]
            IN IF last_request_time < window_start THEN "Ok"
               ELSE IF count >= config.max_requests_per_minute
                    THEN "RateLimitExceeded"
                    ELSE "Ok"
       ELSE "Ok"

\* the table after increment_request_count(user_id)
IncrementedCounts(user_id) ==
    LET entry == IF user_id \in DOMAIN user_request_counts
                 THEN user_request_counts[user_id]
                 ELSE <<0, now>>
    IN (user_id :> <<entry[1] + 1, now>>) @@ user_request_counts

\* history: the check of this call is recorded as <<time, passed, alone>>,
\* alone when no other call of the user is under way
Logged(user_id, passed) ==
    LET alone == \A r \in Reqs : ruser[r] # user_id
    IN rate_log' = [rate_log EXCEPT
                      ![user_id] = Append(@, <<now, passed, alone>>)]

\* the rejected call has taken a permit and keeps it
RejectHoldingPermit(r, user_id) ==
    /\ ret' = [task |-> r, val |-> <<"Err", "RateLimitExceeded">>]
    /\ Logged(user_id, FALSE)
    /\ available_permits' = available_permits - 1
    /\ UNCHANGED <<waiters, rpc, ruser, called_at>>

\* `self.check_rate_limit(&user_id).await?` returns the error
RejectRateLimited(r, user_id) ==
    /\ ret' = [task |-> r, val |-> <<"Err", "RateLimitExceeded">>]
    /\ Logged(user_id, FALSE)
    /\ UNCHANGED <<available_permits, waiters, rpc, ruser, called_at>>

\* acquire() that hands out a permit whether or not one is left
AcquireUnbounded(r, user_id) ==
    /\ available_permits' = available_permits - 1
    /\ rpc' = [rpc EXCEPT ![r] = "granted"]
    /\ ruser' = [ruser EXCEPT ![r] = user_id]
    /\ called_at' = [called_at EXCEPT ![r] = now]
    /\ ret' = NoRet
    /\ UNCHANGED waiters

\* request_semaphore.acquire(): takes a permit or joins the queue
AcquirePermit(r, user_id) ==
    /\ IF available_permits > 0
       THEN /\ available_permits' = available_permits - 1
            /\ rpc' = [rpc EXCEPT ![r] = "granted"]
            /\ UNCHANGED waiters
       ELSE /\ waiters' = Append(waiters, r)
            /\ rpc' = [rpc EXCEPT ![r] = "waiting"]
            /\ UNCHANGED available_permits
    /\ ruser' = [ruser EXCEPT ![r] = user_id]
    /\ called_at' = [called_at EXCEPT ![r] = now]
    /\ ret' = NoRet

\* process_request up to the await on the semaphore.  The rate check and
\* the acquire touch disjoint state, so they are taken in one step.
ProcessRequest(r, user_id) ==
    /\ rpc[r] = "idle"
    /\ calls < MaxCalls
    /\ calls' = calls + 1
    /\ IF config.enable_rate_limiting
       THEN IF CheckRateLimit(user_id) = "Ok"
            THEN Logged(user_id, TRUE) /\ AcquirePermit(r, user_id)
            ELSE RejectRateLimited(r, user_id)
       ELSE UNCHANGED rate_log /\ AcquirePermit(r, user_id)
    /\ UNCHANGED <<now, storeVars, selVars, config, user_request_counts, armed_at>>

\* process_request from the permit to the await inside the two timeouts
IncrementRequestCount(r) ==
    /\ rpc[r] = "granted"
    /\ user_request_counts' = IncrementedCounts(ruser[r])
    /\ armed_at' = [armed_at EXCEPT ![r] = now]
    /\ rpc' = [rpc EXCEPT ![r] = "selecting"]
    /\ ret' = NoRet
    /\ UNCHANGED <<now, storeVars, selVars, config, available_permits, waiters, ruser,
                   called_at, calls, rate_log>>

\* the call returns and keeps its permit
ReturnKeepingPermit(r) ==
    /\ rpc' = [rpc EXCEPT ![r] = "idle"]
    /\ UNCHANGED <<available_permits, waiters>>

\* drop(_permit): the semaphore hands the permit to the head of its queue
ReleasePermit(r) ==
    IF waiters # <<>>
    THEN /\ waiters' = Tail(waiters)
         /\ rpc' = [rpc EXCEPT ![r] = "idle", ![Head(waiters)] = "granted"]
         /\ UNCHANGED available_permits
    ELSE /\ available_permits' = available_permits + 1
         /\ rpc' = [rpc EXCEPT ![r] = "idle"]
         /\ UNCHANGED waiters

\* process_request returns v from inside the timeouts
Exit(r, v) ==
    /\ rpc[r] = "selecting"
    /\ ReleasePermit(r)
    /\ ruser' = [ruser EXCEPT ![r] = None]
    /\ called_at' = [called_at EXCEPT ![r] = 0]
    /\ armed_at' = [armed_at EXCEPT ![r] = 0]
    /\ ret' = [task |-> r, val |-> v]
    /\ UNCHANGED <<now, storeVars, selVars, config, user_request_counts, calls, rate_log>>

\* select_contexts returned Ok
SelectOk(r) == Exit(r, <<"Ok">>)

\* select_contexts returned Err
SelectErr(r) == Exit(r, <<"Err", "ContextSelectionFailed">>)

\* the inner timeout reported with the message of the outer one
SelectionTimeoutAsRequest(r) ==
    /\ now - armed_at[r] >= config.context_selection_timeout_seconds
    /\ Exit(r, <<"Err", "Timeout", "Request timed out">>)

\* the inner timeout elapsed first
SelectionTimeout(r) ==
    /\ now - armed_at[r] >= config.context_selection_timeout_seconds
    /\ Exit(r, <<"Err", "Timeout", "Context selection timed out">>)

\* the outer timeout elapsed first
RequestTimeout(r) ==
    /\ now - armed_at[r] >= config.request_timeout_seconds
    /\ Exit(r, <<"Err", "Timeout", "Request timed out">>)

\* the earlier of the two deadlines of a call that is selecting
Deadline(r) ==
    LET a == config.context_selection_timeout_seconds
        b == config.request_timeout_seconds
    IN armed_at[r] + (IF a < b THEN a ELSE b)

\* Time passes only while every call is suspended: a call that holds a
\* fresh permit runs on, and a call that is selecting leaves at its deadline.
ProcTick ==
    /\ now < ProcMaxTicks * TickSeconds
    /\ \A r \in Reqs : rpc[r] # "granted"
    /\ \A r \in Reqs : rpc[r] = "selecting" => now < Deadline(r)
    /\ now' = now + TickSeconds
    /\ ret' = NoRet
    /\ UNCHANGED <<storeVars, procVars, selVars>>

NextProc ==
    \/ ProcTick
    \/ \E r \in Reqs, u \in UserIds : ProcessRequest(r, u)
    \/ \E r \in Reqs : IncrementRequestCount(r)
    \/ \E r \in Reqs : SelectOk(r)
    \/ \E r \in Reqs : SelectErr(r)
    \/ \E r \in Reqs : SelectionTimeout(r)
    \/ \E r \in Reqs : RequestTimeout(r)

SpecProc == InitProc /\ [][NextProc]_vars

\* what `retain` of cleanup_expired_request_counts keeps of a table at time `at`
Retained(counts, at) ==
    LET window_start == at - RateWindow
        kept == {u \in DOMAIN counts : counts[u][2] >= window_start}
    IN [u \in kept |-> counts[u]]

\* cleanup_expired_request_counts
CleanupExpiredRequestCounts ==
    /\ user_request_counts' = Retained(user_request_counts, now)
    /\ ret' = NoRet
    /\ UNCHANGED <<now, storeVars, selVars, config, available_permits, waiters,
                   rpc, ruser, called_at, armed_at, calls, rate_log>>

\* the request processor with its maintenance call
NextClean ==
    \/ NextProc
    \/ CleanupExpiredRequestCounts

SpecClean == InitProc /\ [][NextClean]_vars

(***************************************************************************)
(* The context selector (src/selection/async_context_selector.rs).  An f64 *)
(* score is the fraction <<numerator, denominator>> it stands for, kept in *)
(* lowest terms.                                                           *)
(***************************************************************************)
RECURSIVE GCD(_, _)
GCD(a, b) == IF b = 0 THEN a ELSE GCD(b, a % b)

Frac(n, d) == LET g == GCD(n, d) IN <<n \div g, d \div g>>

FracAdd(a, b) ==
    LET g == GCD(a[2], b[2])
    IN Frac(a[1] * (b[2] \div g) + b[1] * (a[2] \div g), a[2] * (b[2] \div g))

FracMul(a, b) == Frac(a[1] * b[1], a[2] * b[2])

\* partial_cmp of an / ad and bn / bd: -1, 0 or 1, by their continued
\* fractions
RECURSIVE FracCmp4(_, _, _, _)
FracCmp4(an, ad, bn, bd) ==
    LET qa == an \div ad
        qb == bn \div bd
        ra == an % ad
        rb == bn % bd
    IN IF qa # qb THEN (IF qa < qb THEN 0 - 1 ELSE 1)
       ELSE IF ra = 0 /\ rb = 0 THEN 0
       ELSE IF ra = 0 THEN 0 - 1
       ELSE IF rb = 0 THEN 1
       ELSE FracCmp4(bd, rb, ad, ra)

FracCmp(a, b) == FracCmp4(a[1], a[2], b[1], b[2])

FracGe(a, b) == FracCmp(a, b) >= 0

\* str::to_lowercase on the texts of the model
ToLowercase(text) ==
    CASE text = "A" -> "a"
      [] text = "A b" -> "a b"
      [] OTHER -> text

\* str::split_whitespace on the texts of the model
SplitWhitespace(text) ==
    CASE text = "a b" -> <<"a", "b">>
      [] text = "A b" -> <<"A", "b">>
      [] text = "a a" -> <<"a", "a">>
      [] text = "" -> <<>>
      [] OTHER -> <<text>>

\* a relevance that divides by the number of the content's tokens
RelevanceOverContentWords(context_data, query) ==
    LET query_words == SplitWhitespace(ToLowercase(query))
        context_words == SplitWhitespace(ToLowercase(context_data))
        matches == Cardinality({i \in 1..Len(query_words) :
                                   query_words[i] \in Elems(context_words)})
    IN IF context_words = <<>> THEN <<0, 1>>
       ELSE Frac(matches, Len(context_words))

\* calculate_relevance_score
CalculateRelevanceScore(context_data, query) ==
    LET query_words == SplitWhitespace(ToLowercase(query))
        context_words == Elems(SplitWhitespace(ToLowercase(context_data)))
        matches == Cardinality({i \in 1..Len(query_words) :
                                   query_words[i] \in context_words})
    IN IF query_words = <<>> THEN <<0, 1>>
       ELSE Frac(matches, Len(query_words))

\* time_decay_score: 1 / (1 + hours_since_update * 0.1), clamped to [0, 1]
TimeDecayScore(updated_at) ==
    LET seconds == now - updated_at
        score == IF 36000 + seconds <= 0 THEN <<0 - 1, 1>>
                 ELSE Frac(36000, 36000 + seconds)
    IN IF FracCmp(score, <<0, 1>>) < 0 THEN <<0, 1>>
       ELSE IF FracCmp(score, <<1, 1>>) > 0 THEN <<1, 1>>
       ELSE score

\* a hybrid score made of priority and time decay alone
HybridScoreWithoutRelevance(context, relevance_score) ==
    FracAdd(FracMul(Frac(context.priority, 10), <<3, 10>>),
            FracMul(TimeDecayScore(context.updated_at), <<1, 5>>))

\* hybrid_score = relevance * 0.5 + (priority / 10) * 0.3 + decay * 0.2
HybridScore(context, relevance_score) ==
    FracAdd(FracAdd(FracMul(relevance_score, <<1, 2>>),
                    FracMul(Frac(context.priority, 10), <<3, 10>>)),
            FracMul(TimeDecayScore(context.updated_at), <<1, 5>>))

\* an insertion that puts x before the entries of equal score
RECURSIVE InsertScoredBeforeEqual(_, _)
\* x put into a list of <<context, score>> that is sorted by score
\* descending, behind every entry that does not compare below it
RECURSIVE InsertScored(_, _)
InsertScoredBeforeEqual(sorted, x) ==
    IF sorted = <<>> THEN <<x>>
    ELSE IF FracCmp(x[2], Head(sorted)[2]) >= 0 THEN <<x>> \o sorted
         ELSE <<Head(sorted)>> \o InsertScoredBeforeEqual(Tail(sorted), x)

InsertScored(sorted, x) ==
    IF sorted = <<>> THEN <<x>>
    ELSE IF FracCmp(x[2], Head(sorted)[2]) > 0 THEN <<x>> \o sorted
         ELSE <<Head(sorted)>> \o InsertScored(Tail(sorted), x)

\* slice::sort_by(|a, b| b.1.partial_cmp(&a.1)): a stable sort
RECURSIVE SortScored(_)
SortScored(scored) ==
    IF scored = <<>> THEN <<>>
    ELSE InsertScored(SortScored(SubSeq(scored, 1, Len(scored) - 1)),
                      scored[Len(scored)])

Contexts(scored) == [i \in 1..Len(scored) |-> scored[i][1]]

\* the candidates paired with score(context), those for which keep(context)
\* is false left out
Scored(ctxs, score(_), keep(_)) ==
    LET kept == SelectSeq(ctxs, keep)
    IN [i \in 1..Len(kept) |-> <<kept[i], score(kept[i])>>]

\* apply_selection_strategy
ApplySelectionStrategy(ctxs, query, strategy) ==
    LET relevance(c) == CalculateRelevanceScore(c.context_data, query)
        relevant(c) == FracGe(relevance(c), sel_config.min_relevance_score)
        all(c) == TRUE
        priority(c) == <<c.priority, 1>>
        updated_at(c) == <<c.updated_at, 1>>
        hybrid(c) == HybridScore(c, relevance(c))
    IN CASE strategy = "PriorityBased" ->
                Contexts(SortScored(Scored(ctxs, priority, all)))
         [] strategy = "RecencyBased" ->
                Contexts(SortScored(Scored(ctxs, updated_at, all)))
         [] strategy = "RelevanceBased" ->
                Contexts(SortScored(Scored(ctxs, relevance, relevant)))
         [] strategy = "Hybrid" ->
                Contexts(SortScored(Scored(ctxs, hybrid, relevant)))

\* deduplicate_contexts: the first context of every id is kept
RECURSIVE DeduplicateContexts(_)
DeduplicateContexts(ctxs) ==
    IF ctxs = <<>> THEN <<>>
    ELSE LET front == DeduplicateContexts(SubSeq(ctxs, 1, Len(ctxs) - 1))
             last == ctxs[Len(ctxs)]
         IN IF last.id \in Elems(IdsOf(front)) THEN front
            ELSE Append(front, last)

\* Iterator::take(n)
Take(seq, n) == SubSeq(seq, 1, IF n < Len(seq) THEN n ELSE Len(seq))

\* format!("{}:{}", query, domain)
CacheKey(query, domain) == query \o ":" \o domain

\* get_cached_contexts that still answers from an entry that is ttl old
GetCachedContextsAtTtl(query, domain) ==
    LET cache_key == CacheKey(query, domain)
    IN IF cache_key \in DOMAIN query_context_cache
          /\ now - query_context_cache[cache_key][2] <= sel_config.cache_ttl_seconds
       THEN Some(<<>>)
       ELSE NoneOpt

\* get_cached_contexts that answers with the contexts of the ids it stored
GetCachedContextsResolved(query, domain) ==
    LET cache_key == CacheKey(query, domain)
    IN IF cache_key \in DOMAIN query_context_cache
          /\ now - query_context_cache[cache_key][2] < sel_config.cache_ttl_seconds
       THEN Some(Resolve(query_context_cache[cache_key][1]))
       ELSE NoneOpt

\* get_cached_contexts: an entry younger than the ttl answers with an empty
\* vector
GetCachedContexts(query, domain) ==
    LET cache_key == CacheKey(query, domain)
    IN IF cache_key \in DOMAIN query_context_cache
       THEN IF now - query_context_cache[cache_key][2]
                   < sel_config.cache_ttl_seconds
            THEN Some(<<>>)
            ELSE NoneOpt
       ELSE NoneOpt

\* the cache after cache_contexts(query, domain, ctxs)
CachedContexts(query, domain, ctxs) ==
    IF ~sel_config.enable_cache THEN query_context_cache
    ELSE (CacheKey(query, domain) :> <<IdsOf(ctxs), now>>)
             @@ query_context_cache

\* select_contexts is called
SelectContexts(t, user_id, session_id, query, domain) ==
    /\ Idle(t)
    /\ op' = [op EXCEPT ![t] = "select"]
    /\ pc' = [pc EXCEPT ![t] = "sel_cache"]
    /\ sel_args' = [sel_args EXCEPT ![t] =
                       [user_id |-> user_id, session_id |-> session_id,
                        query |-> query, domain |-> domain]]
    /\ ret' = NoRet
    /\ UNCHANGED <<procVars, now, nextId, contexts, session_contexts,
                   user_contexts, domain_contexts, ctxWriter, idxReaders, cur,
                   lnow, expired, known, snap, sel_config, query_context_cache,
                   candidate_contexts>>

\* select_contexts looks into the cache: a hit returns what the cache gave
SelectCache(t) ==
    /\ pc[t] = "sel_cache"
    /\ LET cached_result ==
               GetCachedContexts(sel_args[t].query, sel_args[t].domain)
       IN IF sel_config.enable_cache /\ cached_result # NoneOpt
          THEN /\ Return(t, <<"Ok", cached_result[1]>>)
               /\ sel_args' = [sel_args EXCEPT ![t] = NoArgs]
          ELSE /\ pc' = [pc EXCEPT ![t] = "sel_session"]
               /\ ret' = NoRet
               /\ UNCHANGED <<op, sel_args>>
    /\ UNCHANGED <<procVars, now, nextId, contexts, session_contexts,
                   user_contexts, domain_contexts, ctxWriter, idxReaders, cur,
                   lnow, expired, known, snap, sel_config, query_context_cache,
                   candidate_contexts>>

\* a read of the store that removes the expired records it passes
GatherReaping(t, here, next, found) ==
    /\ pc[t] = here
    /\ ctxWriter = None
    /\ candidate_contexts' = [candidate_contexts EXCEPT ![t] = @ \o found]
    /\ contexts' = [id \in {i \in DOMAIN contexts : ~IsExpired(contexts[i], now)}
                       |-> contexts[id]]
    /\ pc' = [pc EXCEPT ![t] = next]
    /\ ret' = NoRet
    /\ UNCHANGED <<procVars, now, nextId, session_contexts,
                   user_contexts, domain_contexts, ctxWriter, idxReaders, op,
                   cur, lnow, expired, known, snap, sel_config,
                   query_context_cache, sel_args>>

\* candidate_contexts.extend(get_*_contexts(key)): one read of the store
Gather(t, here, next, found) ==
    /\ pc[t] = here
    /\ ctxWriter = None
    /\ candidate_contexts' = [candidate_contexts EXCEPT ![t] = @ \o found]
    /\ pc' = [pc EXCEPT ![t] = next]
    /\ ret' = NoRet
    /\ UNCHANGED <<procVars, now, nextId, contexts, session_contexts,
                   user_contexts, domain_contexts, ctxWriter, idxReaders, op,
                   cur, lnow, expired, known, snap, sel_config,
                   query_context_cache, sel_args>>

SelectSession(t) ==
    Gather(t, "sel_session", "sel_user",
           GetSessionContexts(sel_args[t].session_id))

SelectUser(t) ==
    Gather(t, "sel_user", "sel_domain", GetUserContexts(sel_args[t].user_id))

SelectDomain(t) ==
    Gather(t, "sel_domain", "sel_rank", GetDomainContexts(sel_args[t].domain))

\* the contexts select_contexts returns for its gathered candidates
FinalContexts(candidates, query) ==
    Take(ApplySelectionStrategy(DeduplicateContexts(candidates), query,
                                sel_config.selection_strategy),
         sel_config.max_contexts_to_return)

\* select_contexts from deduplicate_contexts to Ok(final_contexts)
SelectRank(t) ==
    /\ pc[t] = "sel_rank"
    /\ LET final_contexts ==
               FinalContexts(candidate_contexts[t], sel_args[t].query)
       IN /\ query_context_cache' =
                 CachedContexts(sel_args[t].query, sel_args[t].domain,
                                final_contexts)
          /\ Return(t, <<"Ok", final_contexts>>)
    /\ sel_args' = [sel_args EXCEPT ![t] = NoArgs]
    /\ candidate_contexts' = [candidate_contexts EXCEPT ![t] = <<>>]
    /\ UNCHANGED <<procVars, now, nextId, contexts, session_contexts,
                   user_contexts, domain_contexts, ctxWriter, idxReaders,
                   cur, lnow, expired, known, snap, sel_config>>

\* the configurations handed to ContextSelector::update_config before the
\* calls start
SelConfigs ==
    {DefaultSelectorConfig,
     [DefaultSelectorConfig EXCEPT !.selection_strategy = "PriorityBased",
                                   !.max_contexts_to_return = 1,
                                   !.cache_ttl_seconds = 20],
     [DefaultSelectorConfig EXCEPT !.selection_strategy = "RecencyBased",
                                   !.enable_cache = FALSE],
     [DefaultSelectorConfig EXCEPT !.selection_strategy = "RelevanceBased",
                                   !.min_relevance_score = <<1, 2>>,
                                   !.cache_ttl_seconds = 20]}

\* <<session_id, user_id, domain, context_data, priority>> of create_context
\* and <<user_id, session_id, query, domain>> of select_contexts
SelCreateInputs == {<<"s1", "u1", "d1", "a", 3>>, <<"s2", "u2", "d1", "a b", 9>>}
SelectInputs == {<<"u1", "s1", "a", "d1">>, <<"u2", "s2", "A b", "d1">>}

InitSel ==
    /\ now = 0
    /\ StoreInit
    /\ config = DefaultConfig /\ ProcInit
    /\ sel_config \in SelConfigs /\ SelInit

NextSel ==
    \/ Tick
    \/ \E t \in Tasks, in \in SelCreateInputs :
          CreateContext(t, in[1], in[2], in[3], in[4], in[5])
    \/ \E t \in Tasks : UpdateIndexesSession(t)
    \/ \E t \in Tasks : UpdateIndexesUser(t)
    \/ \E t \in Tasks : UpdateIndexesDomain(t)
    \/ \E t \in Tasks, in \in SelectInputs :
          SelectContexts(t, in[1], in[2], in[3], in[4])
    \/ \E t \in Tasks : SelectCache(t)
    \/ \E t \in Tasks : SelectSession(t)
    \/ \E t \in Tasks : SelectUser(t)
    \/ \E t \in Tasks : SelectDomain(t)
    \/ \E t \in Tasks : SelectRank(t)

SpecSel == InitSel /\ [][NextSel]_vars

(***************************************************************************)
(* The selector with one caller, who creates, updates and deletes contexts *)
(* between its select_contexts calls.  A call may be dropped at any of its *)
(* awaits by the timeout the request processor wraps around it.            *)
(***************************************************************************)
\* timeout(.., select_contexts(..)) elapses: the future is dropped where it
\* is suspended
SelectCancel(t) ==
    /\ pc[t] \in {"sel_cache", "sel_session", "sel_user", "sel_domain", "sel_rank"}
    /\ Return(t, <<"Err", "Timeout", "Context selection timed out">>)
    /\ sel_args' = [sel_args EXCEPT ![t] = NoArgs]
    /\ candidate_contexts' = [candidate_contexts EXCEPT ![t] = <<>>]
    /\ UNCHANGED <<procVars, now, nextId, contexts, session_contexts,
                   user_contexts, domain_contexts, ctxWriter, idxReaders,
                   cur, lnow, expired, known, snap, sel_config,
                   query_context_cache>>

GatherCreateInputs == SelCreateInputs \cup {<<"s2", "u1", "d1", "b", 0>>}

GatherConfigs ==
    {DefaultSelectorConfig,
     [DefaultSelectorConfig EXCEPT !.selection_strategy = "RecencyBased",
                                   !.enable_cache = FALSE]}

InitGather ==
    /\ now = 0
    /\ StoreInit
    /\ config = DefaultConfig /\ ProcInit
    /\ sel_config \in GatherConfigs /\ SelInit

NextGather ==
    \/ Tick
    \/ \E in \in GatherCreateInputs :
          CreateContext(Caller, in[1], in[2], in[3], in[4], in[5])
    \/ \E id \in CallIds, in \in UpdateInputs :
          VersionBelow(id, MaxVersion) /\ UpdateContext(Caller, id, in[1], in[2], in[3])
    \/ UpdateIndexesSession(Caller)
    \/ UpdateIndexesUser(Caller)
    \/ UpdateIndexesDomain(Caller)
    \/ \E id \in CallIds : DeleteContext(Caller, id)
    \/ RemoveFromIndexesSession(Caller)
    \/ RemoveFromIndexesUser(Caller)
    \/ RemoveFromIndexesDomain(Caller)
    \/ \E in \in SelectInputs :
          SelectContexts(Caller, in[1], in[2], in[3], in[4])
    \/ SelectCache(Caller)
    \/ SelectSession(Caller)
    \/ SelectUser(Caller)
    \/ SelectDomain(Caller)
    \/ SelectRank(Caller)
    \/ SelectCancel(Caller)

SpecGather == InitGather /\ [][NextGather]_vars

(***************************************************************************)
(* The ranking of select_contexts on its own: the store holds n candidates *)
(* of session s1, user u1 and domain d1, and task t1 has gathered them and *)
(* is about to rank them.                                                  *)
(***************************************************************************)
RankPriorities == {0, 10}
RankTexts == {"a", "b", "a b"}
RankQueries == {"a", "A b", ""}
RankTimes == {0, ContextTtl}

RankShapes ==
    [priority : RankPriorities, context_data : RankTexts, updated_at : RankTimes]

\* the LLMContext of id i with the given priority, text and update time
RankContext(i, shape) ==
    [id |-> i, session_id |-> "s1", user_id |-> "u1", domain |-> "d1",
     context_data |-> shape.context_data, metadata |-> "empty",
     created_at |-> 0, updated_at |-> shape.updated_at,
     expires_at |-> ContextTtl, priority |-> shape.priority,
     version |-> IF shape.updated_at = 0 THEN 1 ELSE 2, tags |-> <<>>,
     active |-> TRUE]

RankConfigs ==
    {[DefaultSelectorConfig EXCEPT !.selection_strategy = strategy,
                                   !.max_contexts_to_return = max,
                                   !.min_relevance_score = min] :
        strategy \in {"PriorityBased", "RecencyBased", "RelevanceBased", "Hybrid"},
        max \in {MaxCandidates - 1, 5},
        min \in {<<3, 10>>, <<1, 2>>}}

InitRank ==
    /\ now = ContextTtl
    /\ config = DefaultConfig /\ ProcInit
    /\ sel_config \in RankConfigs
    /\ query_context_cache = <<>>
    /\ ctxWriter = None
    /\ idxReaders = [k \in {"session", "user", "domain"} |-> {}]
    /\ op = [t \in Tasks |-> IF t = "t1" THEN "select" ELSE None]
    /\ pc = [t \in Tasks |-> IF t = "t1" THEN "sel_rank" ELSE "idle"]
    /\ cur = [t \in Tasks |-> NoContext]
    /\ lnow = [t \in Tasks |-> 0]
    /\ expired = [t \in Tasks |-> {}]
    /\ ret = NoRet
    /\ known = {}
    /\ snap = <<>>
    /\ \E n \in 0..MaxCandidates : \E shapes \in [1..n -> RankShapes] :
       \E query \in RankQueries :
          LET ctxs == [i \in 1..n |-> RankContext(i, shapes[i])]
              ids == [i \in 1..n |-> i]
              index(key) == IF n = 0 THEN <<>> ELSE (key :> ids)
          IN /\ nextId = n + 1
             /\ contexts = ctxs
             /\ session_contexts = index("s1")
             /\ user_contexts = index("u1")
             /\ domain_contexts = index("d1")
             /\ sel_args = [t \in Tasks |->
                              IF t = "t1"
                              THEN [user_id |-> "u1", session_id |-> "s1",
                                    query |-> query, domain |-> "d1"]
                              ELSE NoArgs]
             /\ candidate_contexts =
                    [t \in Tasks |-> IF t = "t1" THEN ctxs ELSE <<>>]

NextRank == \E t \in Tasks : SelectRank(t)

SpecRank == InitRank /\ [][NextRank]_vars

(***************************************************************************)
(* Properties of the store.                                                *)
(***************************************************************************)
AllIds == 1..MaxIds

Quiescent == \A t \in Tasks : pc[t] = "idle"

InIndex(index, key, id) == key \in DOMAIN index /\ id \in Elems(index[key])

\* id is listed under key in the index exactly if it is a stored record
\* that carries that key
SessionIndexAgrees(id) ==
    \A key \in Sessions :
        InIndex(session_contexts, key, id)
            <=> (id \in DOMAIN contexts /\ contexts[id].session_id = key)

UserIndexAgrees(id) ==
    \A key \in UserIds :
        InIndex(user_contexts, key, id)
            <=> (id \in DOMAIN contexts /\ contexts[id].user_id = key)

DomainIndexAgrees(id) ==
    \A key \in Domains :
        InIndex(domain_contexts, key, id)
            <=> (id \in DOMAIN contexts /\ contexts[id].domain = key)

IndexesAgree ==
    \A id \in AllIds :
        SessionIndexAgrees(id) /\ UserIndexAgrees(id) /\ DomainIndexAgrees(id)

\* C1: whenever no call is in progress, an id is listed in the session, user
\* and domain index under its own keys if and only if it is in the primary
\* map.
IndexConsistency == Quiescent => IndexesAgree

\* C2: in every state in which a reader can take contexts.read(), that is
\* also while a create, update, delete or cleanup is between two of its
\* awaits, the primary map and the three indices agree on every id.
AtomicVisibility == (ctxWriter = None) => IndexesAgree

\* the create_context call that made id has returned
Created(id) ==
    /\ id \in DOMAIN contexts
    /\ \A t \in Tasks : ~(op[t] = "create" /\ cur[t].id = id)

ReturnedByAll(id) ==
    LET c == contexts[id]
    IN /\ GetContext(id) = Some(c)
       /\ id \in Elems(IdsOf(GetSessionContexts(c.session_id)))
       /\ id \in Elems(IdsOf(GetUserContexts(c.user_id)))
       /\ id \in Elems(IdsOf(GetDomainContexts(c.domain)))

ReturnedByNone(id) ==
    /\ GetContext(id) = NoneOpt
    /\ \A key \in Sessions : id \notin Elems(IdsOf(GetSessionContexts(key)))
    /\ \A key \in UserIds : id \notin Elems(IdsOf(GetUserContexts(key)))
    /\ \A key \in Domains : id \notin Elems(IdsOf(GetDomainContexts(key)))

\* C3: a stored record whose create has returned is returned by get and by
\* the three get_by reads while less than the ttl has passed since it was
\* created, and by none of them once more than the ttl has passed, reaped
\* or not.
TtlVisibility ==
    \A id \in DOMAIN contexts :
        Created(id) =>
            /\ now < contexts[id].created_at + ContextTtl => ReturnedByAll(id)
            /\ now > contexts[id].created_at + ContextTtl => ReturnedByNone(id)

\* an expired record that no cleanup has removed is hidden from every read,
\* next to a record that is still returned
TtlVisibilityWitness ==
    \E id \in DOMAIN contexts, other \in DOMAIN contexts :
        /\ Created(id) /\ Created(other)
        /\ now > contexts[id].created_at + ContextTtl
        /\ ReturnedByNone(id)
        /\ now < contexts[other].created_at + ContextTtl
        /\ ReturnedByAll(other)

InSomeIndex(id) ==
    \/ \E key \in DOMAIN session_contexts : id \in Elems(session_contexts[key])
    \/ \E key \in DOMAIN user_contexts : id \in Elems(user_contexts[key])
    \/ \E key \in DOMAIN domain_contexts : id \in Elems(domain_contexts[key])

\* C4: when cleanup_expired returns, the primary map is the one it found
\* less exactly the records whose expires_at had passed, total_contexts has
\* dropped by their number, the records kept are unchanged, and none of the
\* removed ids is left in an index; with nothing expired nothing is removed.
ReapCorrectness ==
    [][\A t \in Tasks :
          (pc[t] = "gc_loop" /\ pc'[t] = "idle") =>
              LET gone == {id \in DOMAIN snap : lnow[t] > snap[id].expires_at}
              IN /\ DOMAIN contexts' = DOMAIN snap \ gone
                 /\ Cardinality(DOMAIN contexts')
                        = Cardinality(DOMAIN snap) - Cardinality(gone)
                 /\ \A id \in DOMAIN contexts' : contexts'[id] = snap[id]
                 /\ \A id \in gone : ~InSomeIndex(id)']_vars

(***************************************************************************)
(* Properties of the request processor.                                    *)
(***************************************************************************)
\* the calls that are past `request_semaphore.acquire().await`
Holders == {r \in Reqs : rpc[r] \in {"granted", "selecting"}}

\* C5: at no time do more calls hold a permit than the pool has; the permits
\* held and the permits free add up to the pool.
ConcurrencyBound ==
    /\ Cardinality(Holders) <= PoolSize
    /\ available_permits = PoolSize - Cardinality(Holders)

\* the pool is used up by calls that are selecting while another call waits
ConcurrencyBoundWitness ==
    /\ Cardinality({r \in Reqs : rpc[r] = "selecting"}) = PoolSize
    /\ waiters # <<>>

\* C6: once every call has returned, by whichever exit, all permits of the
\* pool are free and no call is left in the queue.
PermitRelease ==
    (\A r \in Reqs : rpc[r] = "idle") =>
        available_permits = PoolSize /\ waiters = <<>>

\* the last call to return left through a timeout, after all permits had
\* been taken, and the pool is full again
PermitReleaseWitness ==
    /\ \A r \in Reqs : rpc[r] = "idle"
    /\ ret.task \in Reqs
    /\ ret.val = <<"Err", "Timeout", "Request timed out">>
    /\ calls >= PoolSize + 1
    /\ available_permits = PoolSize

\* the check at position j of the log opens a window: it is the user's first,
\* or more than a window later than the one before it
WindowStart(log, j) == j = 1 \/ log[j][1] - log[j - 1][1] > RateWindow

\* C7: for a user whose calls have all been made one after the other, of
\* the calls made inside one window of 60 seconds the first
\* max_requests_per_minute pass the rate check and the next one is rejected;
\* the first call of a new window passes.
RateLimiting ==
    \A u \in UserIds :
        LET log == rate_log[u]
            m == config.max_requests_per_minute
        IN \A j \in 1..Len(log) : \A i \in j..Len(log) :
              ( /\ WindowStart(log, j)
                /\ log[i][1] - log[j][1] < RateWindow
                /\ i - j + 1 <= m + 1
                /\ \A k \in 1..i : log[k][3] )
              => (log[i][2] <=> i - j + 1 <= m)

\* C8: the step that counts an admitted request sets the user's count to 1
\* when 60 seconds or more have passed since last_seen, and adds 1 to it
\* otherwise; last_seen becomes now in both cases.
WindowReset ==
    [][\A r \in Reqs :
          (rpc[r] = "granted" /\ rpc'[r] = "selecting") =>
              LET u == ruser[r]
                  tracked == u \in DOMAIN user_request_counts
                  old == IF tracked THEN user_request_counts[u][1] ELSE 0
                  elapsed == tracked
                             /\ now - user_request_counts[u][2] >= RateWindow
              IN /\ user_request_counts'[u][1] = (IF elapsed THEN 1 ELSE old + 1)
                 /\ user_request_counts'[u][2] = now]_vars

\* C9: the step in which a call is rejected with RateLimitExceeded starts
\* and ends with the call outside the pool, and leaves the free permits and
\* the queue of the semaphore as they were.
RejectionTakesNoPermit ==
    [][\A r \in Reqs :
          (ret'.task = r /\ ret'.val = <<"Err", "RateLimitExceeded">>) =>
              /\ rpc[r] = "idle" /\ rpc'[r] = "idle"
              /\ available_permits' = available_permits
              /\ waiters' = waiters]_vars

\* a call has just been rejected while the pool is used up and another call
\* is queuing for a permit
RejectionTakesNoPermitWitness ==
    /\ ret.task \in Reqs
    /\ ret.val = <<"Err", "RateLimitExceeded">>
    /\ rpc[ret.task] = "idle"
    /\ available_permits = 0
    /\ waiters # <<>>

\* C10: no call is still waiting for a permit when more than
\* request_timeout_seconds have passed since it was made.
BoundedAdmissionWait ==
    \A r \in Reqs :
        rpc[r] = "waiting" =>
            now - called_at[r] <= config.request_timeout_seconds

\* C11: a call that leaves the selecting stage returns Ok, a
\* ContextSelectionFailed error, or one of two Timeout errors that differ in
\* their message; the one of the selection stage is returned only once
\* context_selection_timeout_seconds have passed since the stage began, the
\* one of the request only once request_timeout_seconds have passed.
StagedSelectionTimeout ==
    [][\A r \in Reqs :
          (rpc[r] = "selecting" /\ rpc'[r] = "idle") =>
              LET elapsed == now - armed_at[r]
                  selection == <<"Err", "Timeout", "Context selection timed out">>
                  request == <<"Err", "Timeout", "Request timed out">>
                  failed == <<"Err", "ContextSelectionFailed">>
              IN /\ ret'.task = r
                 /\ ret'.val \in {<<"Ok">>, failed, selection, request}
                 /\ selection # request
                 /\ ret'.val = selection =>
                        elapsed >= config.context_selection_timeout_seconds
                 /\ ret'.val = request =>
                        elapsed >= config.request_timeout_seconds]_vars

\* a call has just failed with the Timeout of the selection stage under a
\* configuration whose request timeout is the longer one
StagedSelectionTimeoutWitness ==
    /\ ret.task \in Reqs
    /\ ret.val = <<"Err", "Timeout", "Context selection timed out">>
    /\ config.request_timeout_seconds > config.context_selection_timeout_seconds

(***************************************************************************)
(* Properties of the selector.                                             *)
(***************************************************************************)
\* what select_contexts computes from the store as it is now
FreshSelect(args) ==
    FinalContexts(GetSessionContexts(args.session_id)
                      \o GetUserContexts(args.user_id)
                      \o GetDomainContexts(args.domain),
                  args.query)

\* the ids stored in the cache for the arguments
CachedIds(args) == query_context_cache[CacheKey(args.query, args.domain)][1]

\* C12: a select_contexts call that is answered from a cache entry which
\* names the contexts that the computation from the store still selects,
\* returns the ordered list that this computation returns.
CacheEquivalence ==
    [][\A t \in Tasks :
          ( /\ pc[t] = "sel_cache" /\ pc'[t] = "idle"
            /\ CachedIds(sel_args[t]) = IdsOf(FreshSelect(sel_args[t])) )
          => ret'.val = <<"Ok", FreshSelect(sel_args[t])>>]_vars

(***************************************************************************)
(* Properties of the writers.                                              *)
(***************************************************************************)
\* task t is inside update_context(id), between its write and its return
Updating(t, id) == op[t] = "update" /\ cur[t].id = id

\* C13: a context's version is 1 when create_context inserts it, goes up by
\* exactly 1 in the step in which an update_context call writes the record
\* and changes in no other step; an update_context call returns with the
\* record still as it wrote it, so no other update read or wrote the record
\* in between and n updates leave the version at n + 1.
VersionLinearization ==
    [][\A id \in AllIds :
          LET before == id \in DOMAIN contexts
              after == id \in DOMAIN contexts'
              written == \E t \in Tasks : ~Updating(t, id) /\ Updating(t, id)'
          IN /\ (~before /\ after) => contexts'[id].version = 1
             /\ (before /\ after) =>
                   contexts'[id].version =
                       contexts[id].version + (IF written THEN 1 ELSE 0)
             /\ \A t \in Tasks :
                   (Updating(t, id) /\ ~Updating(t, id)') =>
                       /\ ret'.val = <<"Ok">>
                       /\ before /\ contexts[id] = cur[t]
                       /\ \A o \in Tasks \ {t} : ~Updating(o, id)]_vars

\* a second update of one context has returned
VersionLinearizationWitness ==
    /\ ret.val = <<"Ok">>
    /\ \E id \in DOMAIN contexts : contexts[id].version = MaxUpdates + 1
\* C14: create_context and update_context called with a priority outside
\* 0..10 fail and store nothing, so every record of the primary map has its
\* priority in 0..10 in every reachable state.
PriorityValidation ==
    \A id \in DOMAIN contexts : contexts[id].priority \in 0..10
NotFound == <<"Err", "Context not found">>

\* C15: update_context and delete_context called with an id that is not in
\* the primary map return the error "Context not found" and leave the
\* primary map and the three indices as they were; no other call returns
\* that error, and a call that does go on to write was given a stored id.
NotFoundLeavesStore ==
    [][\A t \in Tasks :
          /\ \A id \in AllIds \cup {UnknownId} :
                ( /\ id \notin DOMAIN contexts
                  /\ \/ DeleteContext(t, id)
                     \/ \E in \in UpdateInputs :
                           UpdateContext(t, id, in[1], in[2], in[3]) )
                => /\ ret' = [task |-> t, val |-> NotFound]
                   /\ UNCHANGED <<contexts, session_contexts, user_contexts,
                                  domain_contexts>>
          /\ (ret'.task = t /\ ret'.val = NotFound) =>
                /\ Idle(t) /\ Idle(t)'
                /\ UNCHANGED <<contexts, session_contexts, user_contexts,
                               domain_contexts, ctxWriter>>
          /\ (Idle(t) /\ op'[t] \in {"update", "delete"}) =>
                cur'[t].id \in DOMAIN contexts]_vars

\* the error was returned by a store that holds records, for an id that was
\* handed out earlier and deleted since
NotFoundLeavesStoreWitness ==
    /\ ret.val = NotFound
    /\ contexts # <<>>
    /\ session_contexts # <<>>
    /\ known \ DOMAIN contexts # {}
\* C16: update_context never changes index membership: no step of an
\* update_context call changes the session, user or domain index, so the
\* lists after a successful update are what they were before it (same ids,
\* same order, same multiplicity).
UpdateKeepsIndexes ==
    [][\A t \in Tasks :
          (op[t] = "update" /\ pc'[t] # pc[t]) =>
              UNCHANGED <<session_contexts, user_contexts, domain_contexts>>]_vars
\* the stored, unexpired contexts that carry key `key` in field `field`
Visible(field, key) ==
    {id \in DOMAIN contexts :
        contexts[id][field] = key /\ ~IsExpired(contexts[id], now)}

\* the ids of a set in the order of their creation (ids are handed out in
\* that order)
RECURSIVE InCreationOrder(_)
InCreationOrder(ids) ==
    IF ids = {} THEN <<>>
    ELSE LET first == CHOOSE id \in ids : \A o \in ids : id <= o
         IN <<first>> \o InCreationOrder(ids \ {first})

\* C17: after any sequence of create_context, update_context,
\* delete_context and cleanup_expired_contexts calls, get_session_contexts,
\* get_user_contexts and get_domain_contexts return for every key each
\* visible (stored and unexpired) context carrying the key exactly once, in
\* the order in which the contexts were created.
LookupExactlyOnce ==
    Quiescent =>
        /\ \A key \in Sessions :
              IdsOf(GetSessionContexts(key)) = InCreationOrder(Visible("session_id", key))
        /\ \A key \in UserIds :
              IdsOf(GetUserContexts(key)) = InCreationOrder(Visible("user_id", key))
        /\ \A key \in Domains :
              IdsOf(GetDomainContexts(key)) = InCreationOrder(Visible("domain", key))
\* the entries of one index with the occurrences of id left out
EntriesWithout(index, id) == [key \in DOMAIN index |-> Retain(index[key], id)]

\* id occurs in some list of the index
Listed(index, id) == \E key \in DOMAIN index : id \in Elems(index[key])

\* C18: when delete_context(id) returns Ok, id is in neither the primary
\* map nor any list of the session, user and domain indices (so get_context
\* and the three lookups do not return it), and no step of the call changes
\* another record or another id's index entries.
DeleteRemovesAll ==
    [][\A t \in Tasks :
          (op'[t] = "delete" \/ op[t] = "delete") /\ pc'[t] # pc[t] =>
              LET id == IF op[t] = "delete" THEN cur[t].id ELSE cur'[t].id
              IN /\ RemoveKey(contexts', id) = RemoveKey(contexts, id)
                 /\ EntriesWithout(session_contexts', id) = EntriesWithout(session_contexts, id)
                 /\ EntriesWithout(user_contexts', id) = EntriesWithout(user_contexts, id)
                 /\ EntriesWithout(domain_contexts', id) = EntriesWithout(domain_contexts, id)
                 /\ pc'[t] = "idle" =>
                       /\ ret'.val = <<"Ok">>
                       /\ id \notin DOMAIN contexts'
                       /\ ~Listed(session_contexts', id)
                       /\ ~Listed(user_contexts', id)
                       /\ ~Listed(domain_contexts', id)]_vars
(***************************************************************************)
(* Properties of the ranking.                                              *)
(***************************************************************************)
\* the place of context c in the candidate list
Place(candidates, c) == CHOOSE i \in 1..Len(candidates) : candidates[i].id = c.id

\* PriorityBased puts a before b
PriorityBefore(candidates, a, b) ==
    \/ a.priority > b.priority
    \/ a.priority = b.priority /\ Place(candidates, a) < Place(candidates, b)

\* C19: the result of every strategy has at most max_contexts_to_return
\* entries; the result of PriorityBased is the candidate list sorted by
\* priority descending, candidates of equal priority staying in candidate
\* order, cut to its first max_contexts_to_return entries.
PriorityBasedStable ==
    [][\A t \in Tasks :
          (pc[t] = "sel_rank" /\ pc'[t] = "idle") =>
              LET candidates == DeduplicateContexts(candidate_contexts[t])
                  max == sel_config.max_contexts_to_return
                  result == ret'.val[2]
                  left == {candidates[i] : i \in 1..Len(candidates)} \ Elems(result)
              IN /\ ret'.val[1] = "Ok"
                 /\ Len(result) <= max
                 /\ sel_config.selection_strategy = "PriorityBased" =>
                       /\ Len(result) = IF Len(candidates) < max
                                        THEN Len(candidates) ELSE max
                       /\ Elems(result) \subseteq Elems(candidates)
                       /\ \A i, j \in 1..Len(result) :
                             i < j => PriorityBefore(candidates, result[i], result[j])
                       /\ \A c \in left : \A i \in 1..Len(result) :
                             PriorityBefore(candidates, result[i], c)]_vars

\* a PriorityBased call has returned a list cut to max_contexts_to_return in
\* which two contexts of equal priority follow one another
PriorityBasedStableWitness ==
    /\ ret.task \in Tasks
    /\ sel_config.selection_strategy = "PriorityBased"
    /\ Len(ret.val) = 2
    /\ Len(ret.val[2]) = sel_config.max_contexts_to_return
    /\ Cardinality(DOMAIN contexts) > sel_config.max_contexts_to_return
    /\ \E i \in 1..(Len(ret.val[2]) - 1) :
          /\ ret.val[2][i].priority = ret.val[2][i + 1].priority
          /\ ret.val[2][i].id < ret.val[2][i + 1].id
    /\ \E id \in DOMAIN contexts :
          /\ contexts[id] \notin Elems(ret.val[2])
          /\ contexts[id].priority = ret.val[2][Len(ret.val[2])].priority
\* the combined score of candidate c for the query:
\* 0.5 * relevance + 0.3 * priority / 10 + 0.2 * time decay
CombinedScore(c, query) ==
    HybridScore(c, CalculateRelevanceScore(c.context_data, query))

\* C20: Hybrid keeps a candidate if and only if its combined score is at
\* least min_relevance_score (the threshold is compared with the combined
\* score, not with the relevance term alone) and returns the kept candidates
\* sorted by that score descending, cut to max_contexts_to_return.
HybridThreshold ==
    [][\A t \in Tasks :
          ( /\ pc[t] = "sel_rank" /\ pc'[t] = "idle"
            /\ sel_config.selection_strategy = "Hybrid" ) =>
              LET candidates == DeduplicateContexts(candidate_contexts[t])
                  query == sel_args[t].query
                  max == sel_config.max_contexts_to_return
                  kept == SelectSeq(candidates,
                              LAMBDA c : FracGe(CombinedScore(c, query),
                                                sel_config.min_relevance_score))
                  result == ret'.val[2]
              IN /\ Elems(result) \subseteq Elems(kept)
                 /\ Len(result) = IF Len(kept) < max THEN Len(kept) ELSE max
                 /\ \A i, j \in 1..Len(result) :
                       i < j => FracGe(CombinedScore(result[i], query),
                                       CombinedScore(result[j], query))]_vars
\* the number of the query's tokens that occur among the tokens of the
\* content, both lower-cased
TokensFound(context_data, query) ==
    LET query_words == SplitWhitespace(ToLowercase(query))
        context_words == Elems(SplitWhitespace(ToLowercase(context_data)))
    IN Cardinality({i \in 1..Len(query_words) : query_words[i] \in context_words})

\* C21: of two candidates with equal priority and equal update time, the
\* one whose content holds more of the query's tokens has the strictly
\* higher relevance and the strictly higher hybrid score, and Hybrid ranks
\* it before the other: when the other is returned, so is it, earlier.
HybridMonotonicity ==
    [][\A t \in Tasks :
          ( /\ pc[t] = "sel_rank" /\ pc'[t] = "idle"
            /\ sel_config.selection_strategy = "Hybrid" ) =>
              LET candidates == DeduplicateContexts(candidate_contexts[t])
                  query == sel_args[t].query
                  result == ret'.val[2]
              IN \A i, j \in 1..Len(candidates) :
                    LET a == candidates[i]
                        b == candidates[j]
                    IN ( /\ a.priority = b.priority
                         /\ a.updated_at = b.updated_at
                         /\ TokensFound(a.context_data, query)
                               > TokensFound(b.context_data, query) ) =>
                         /\ FracCmp(CalculateRelevanceScore(a.context_data, query),
                                    CalculateRelevanceScore(b.context_data, query)) > 0
                         /\ FracCmp(CombinedScore(a, query), CombinedScore(b, query)) > 0
                         /\ b \in Elems(result) =>
                               /\ a \in Elems(result)
                               /\ Place(result, a) < Place(result, b)]_vars

\* a Hybrid call has returned a context with the text "a b" in front of an
\* earlier candidate of the same priority and update time with the text
\* "b"; only the query "A b" lets the latter pass the threshold
HybridMonotonicityWitness ==
    /\ ret.task \in Tasks
    /\ sel_config.selection_strategy = "Hybrid"
    /\ Len(ret.val) = 2
    /\ \E i, j \in 1..Len(ret.val[2]) :
          /\ i < j
          /\ ret.val[2][i].context_data = "a b"
          /\ ret.val[2][j].context_data = "b"
          /\ ret.val[2][i].priority = ret.val[2][j].priority
          /\ ret.val[2][i].updated_at = ret.val[2][j].updated_at
          /\ ret.val[2][i].id > ret.val[2][j].id
(***************************************************************************)
(* Properties of the locking.                                              *)
(***************************************************************************)
\* the locks task t holds: the write guard of `contexts`, the read guards
\* of the indices
HeldLocks(t) ==
    (IF ctxWriter = t THEN {"contexts"} ELSE {})
        \cup {kind \in {"session", "user", "domain"} : t \in idxReaders[kind]}

\* the lock task t is suspended on, by the await it has reached
AwaitedLock(t) ==
    CASE pc[t] \in {"upd_session", "rm_session"} -> {"session"}
      [] pc[t] \in {"upd_user", "rm_user"} -> {"user"}
      [] pc[t] \in {"upd_domain", "rm_domain"} -> {"domain"}
      [] pc[t] \in {"gc_lock", "rd_contexts"} -> {"contexts"}
      [] OTHER -> {}

\* C22: no operation holds one lock while it is suspended on the
\* acquisition of another: a task that awaits a lock holds none.
LockDiscipline ==
    \A t \in Tasks : AwaitedLock(t) # {} => HeldLocks(t) = {}
(***************************************************************************)
(* Properties of the stages of process_request.                            *)
(***************************************************************************)
\* the stages a call may reach next from each stage: a call that has not
\* started is rejected, queues for a permit or takes one; a queued call is
\* handed a permit; a call with a permit starts selecting; a selecting call
\* returns
NextStages(stage) ==
    CASE stage = "idle" -> {"idle", "waiting", "granted"}
      [] stage = "waiting" -> {"granted"}
      [] stage = "granted" -> {"selecting"}
      [] stage = "selecting" -> {"idle"}

\* C23: every call passes its stages in the order rate check, permit,
\* selection, completion and repeats none; selection starts only with the
\* permit held; the per-user counter is checked and updated in the
\* rate-check stage, that is in the step that starts the call, before the
\* permit is requested.
StageOrdering ==
    [][/\ \A r \in Reqs :
             /\ rpc'[r] # rpc[r] => rpc'[r] \in NextStages(rpc[r])
             /\ rpc'[r] = "selecting" =>
                   /\ rpc[r] \in {"granted", "selecting"}
                   /\ available_permits < PoolSize
       /\ user_request_counts' # user_request_counts =>
             \E r \in Reqs : rpc[r] = "idle" /\ rpc'[r] # "idle"]_vars
(***************************************************************************)
(* Properties of the reads.                                                *)
(***************************************************************************)
\* a step of get_context, get_stats or one of the three lookups by task t
ReadStep(t) ==
    \/ \E id \in AllIds \cup {UnknownId} : GetContextCall(t, id)
    \/ GetStats(t)
    \/ \E kind \in {"session", "user", "domain"} :
          \E key \in KeysOf(kind) : GetByIndexBegin(t, kind, key)
    \/ GetByIndexResolve(t)

\* C24: get_context, get_stats and the three lookups change neither the
\* primary map nor an index; a record, expired or not, leaves the primary
\* map only in a step of delete_context or cleanup_expired_contexts and an
\* id leaves an index list only in remove_from_indexes, so until then an
\* expired record is hidden from the reads but stored, listed and counted
\* by get_stats().total_contexts.
LazyExpiry ==
    [][/\ \A t \in Tasks :
             ReadStep(t) => UNCHANGED <<contexts, session_contexts, user_contexts,
                                        domain_contexts>>
       /\ \A id \in AllIds :
             /\ (id \in DOMAIN contexts /\ id \notin DOMAIN contexts') =>
                   /\ \E t \in Tasks :
                         \/ Idle(t) /\ op'[t] = "delete" /\ cur'[t].id = id
                         \/ op[t] = "cleanup" /\ pc[t] = "gc_loop" /\ cur'[t].id = id
                   /\ TotalContexts' = TotalContexts - 1
             /\ (Listed(session_contexts, id) /\ ~Listed(session_contexts', id)) =>
                   \E t \in Tasks : pc[t] = "rm_session" /\ cur[t].id = id
             /\ (Listed(user_contexts, id) /\ ~Listed(user_contexts', id)) =>
                   \E t \in Tasks : pc[t] = "rm_user" /\ cur[t].id = id
             /\ (Listed(domain_contexts, id) /\ ~Listed(domain_contexts', id)) =>
                   \E t \in Tasks : pc[t] = "rm_domain" /\ cur[t].id = id
             /\ (id \in DOMAIN contexts /\ IsExpired(contexts[id], now)) =>
                   GetContext(id) = NoneOpt /\ TotalContexts >= 1]_vars

\* a lookup is under way on an index list that holds an expired record,
\* which get_context hides and get_stats counts
LazyExpiryWitness ==
    \E t \in Tasks, id \in DOMAIN contexts :
        /\ pc[t] = "rd_contexts"
        /\ IsExpired(contexts[id], now)
        /\ id \in Elems(IndexOf(op[t])[cur[t].key])
        /\ GetContext(id) = NoneOpt
        /\ Resolve(IndexOf(op[t])[cur[t].key]) = <<>>
        /\ TotalContexts >= 1
\* the fields update_context has no argument for and does not stamp
KeptFields ==
    {"id", "session_id", "user_id", "domain", "created_at", "expires_at",
     "tags", "active"}

\* C25: a successful update_context sets context_data, metadata and
\* priority to the values given and leaves those not given as they were,
\* stamps updated_at and adds 1 to version; id, session_id, user_id,
\* domain, created_at, expires_at and tags of the record, and every other
\* record, are unchanged.
UpdateFrame ==
    [][\A t \in Tasks, id \in AllIds, in \in FieldUpdateInputs :
          (id \in DOMAIN contexts /\ UpdateContext(t, id, in[1], in[2], in[3])) =>
              LET before == contexts[id]
                  after == contexts'[id]
                  given(arg, old) == IF arg = NoneOpt THEN old ELSE arg[1]
              IN /\ RemoveKey(contexts', id) = RemoveKey(contexts, id)
                 /\ id \in DOMAIN contexts'
                 /\ \A f \in KeptFields : after[f] = before[f]
                 /\ after.context_data = given(in[1], before.context_data)
                 /\ after.metadata = given(in[2], before.metadata)
                 /\ after.priority = given(in[3], before.priority)
                 /\ after.updated_at = now
                 /\ after.version = before.version + 1]_vars

\* an update of the metadata alone has returned, made after the record's
\* creation time, with a second record in the store
UpdateFrameWitness ==
    /\ ret.val = <<"Ok">>
    /\ \E id \in DOMAIN contexts :
          /\ contexts[id].metadata = "m"
          /\ contexts[id].context_data = "a"
          /\ contexts[id].version = 2
          /\ contexts[id].updated_at > contexts[id].created_at
          /\ DOMAIN contexts # {id}
(***************************************************************************)
(* Properties of the gathering of candidates.                              *)
(***************************************************************************)
\* which of the caller's keys context c matches first: 1 its session, 2 its
\* user, 3 its domain, 4 none
MatchRank(c, args) ==
    IF c.session_id = args.session_id THEN 1
    ELSE IF c.user_id = args.user_id THEN 2
    ELSE IF c.domain = args.domain THEN 3
    ELSE 4

\* C26: the candidate list handed to the ranking is the session, user and
\* domain lookups one after the other with every id kept at its first
\* occurrence only: each visible context matching one of the three keys is
\* in it exactly once, session matches come before user-only matches, and
\* those before domain-only matches.
CandidateGathering ==
    \A t \in Tasks :
        pc[t] = "sel_rank" =>
            LET args == sel_args[t]
                candidates == DeduplicateContexts(candidate_contexts[t])
                lookups == GetSessionContexts(args.session_id)
                               \o GetUserContexts(args.user_id)
                               \o GetDomainContexts(args.domain)
                matching == {id \in DOMAIN contexts :
                                /\ ~IsExpired(contexts[id], now)
                                /\ MatchRank(contexts[id], args) < 4}
            IN /\ Elems(IdsOf(lookups)) \subseteq Elems(IdsOf(candidates))
               /\ matching \subseteq Elems(IdsOf(candidates))
               /\ Cardinality(Elems(IdsOf(candidates))) = Len(candidates)
               /\ \A i \in 1..Len(candidates) :
                     /\ MatchRank(candidates[i], args) < 4
                     /\ candidates[i] \in Elems(candidate_contexts[t])
               /\ \A i, j \in 1..Len(candidates) :
                     i < j => MatchRank(candidates[i], args)
                                  <= MatchRank(candidates[j], args)

(***************************************************************************)
(* Properties of RelevanceBased.                                           *)
(***************************************************************************)
\* the share of the query's tokens found among the content's tokens, 0 for
\* a query without tokens
TokenShare(c, query) ==
    LET tokens == Len(SplitWhitespace(ToLowercase(query)))
    IN IF tokens = 0 THEN <<0, 1>>
       ELSE Frac(TokensFound(c.context_data, query), tokens)

\* RelevanceBased puts a before b
RelevanceBefore(candidates, query, a, b) ==
    LET order == FracCmp(TokenShare(a, query), TokenShare(b, query))
    IN \/ order > 0
       \/ order = 0 /\ Place(candidates, a) < Place(candidates, b)

\* C27: RelevanceBased scores a candidate with the share of the query's
\* tokens found among the lower-cased whitespace tokens of its content (0
\* when the query has no tokens) and returns exactly the candidates whose
\* score is at least min_relevance_score, sorted by score descending with
\* ties in candidate order (the first max_contexts_to_return of them).
RelevanceBasedSelection ==
    [][\A t \in Tasks :
          ( /\ pc[t] = "sel_rank" /\ pc'[t] = "idle"
            /\ sel_config.selection_strategy = "RelevanceBased" ) =>
              LET candidates == DeduplicateContexts(candidate_contexts[t])
                  query == sel_args[t].query
                  max == sel_config.max_contexts_to_return
                  kept == {candidates[i] : i \in
                              {k \in 1..Len(candidates) :
                                  FracGe(TokenShare(candidates[k], query),
                                         sel_config.min_relevance_score)}}
                  result == ret'.val[2]
              IN /\ Elems(result) \subseteq kept
                 /\ Len(result) = IF Cardinality(kept) < max
                                  THEN Cardinality(kept) ELSE max
                 /\ \A i, j \in 1..Len(result) :
                       i < j => RelevanceBefore(candidates, query, result[i], result[j])
                 /\ \A c \in kept \ Elems(result) : \A i \in 1..Len(result) :
                       RelevanceBefore(candidates, query, result[i], c)]_vars

\* a RelevanceBased call with the query "a" and room for five results has
\* returned two contexts of equal score in candidate order and dropped the
\* third candidate, whose text "b" holds no token of the query
RelevanceBasedSelectionWitness ==
    /\ ret.task \in Tasks
    /\ sel_config.selection_strategy = "RelevanceBased"
    /\ sel_config.max_contexts_to_return > MaxCandidates
    /\ CacheKey("a", "d1") \in DOMAIN query_context_cache
    /\ Len(ret.val) = 2
    /\ Len(ret.val[2]) = 2
    /\ ret.val[2][1].context_data = "a"
    /\ ret.val[2][2].context_data = "a b"
    /\ ret.val[2][1].id < ret.val[2][2].id
    /\ \E id \in DOMAIN contexts :
          contexts[id].context_data = "b" /\ contexts[id] \notin Elems(ret.val[2])
(***************************************************************************)
(* Properties of select_contexts as a whole.                               *)
(***************************************************************************)
SelectionTimedOut == <<"Err", "Timeout", "Context selection timed out">>

\* C28: no step of a select_contexts call, be it the call itself, the
\* answer from the cache, a lookup, the ranking or the drop of the call by
\* the selection timeout, changes the primary map or one of the three
\* indices.
SelectionReadOnly ==
    [][\A t \in Tasks :
          ((op[t] = "select" \/ op'[t] = "select") /\ pc'[t] # pc[t]) =>
              /\ UNCHANGED <<contexts, session_contexts, user_contexts,
                             domain_contexts>>
              /\ pc'[t] = "idle" =>
                    /\ ret'.task = t
                    /\ ret'.val = SelectionTimedOut \/ ret'.val[1] = "Ok"]_vars

\* a call was dropped by the timeout, in a store that holds an expired
\* record, after an earlier call had completed and filled the cache
SelectionReadOnlyWitness ==
    /\ ret.val = SelectionTimedOut
    /\ query_context_cache # <<>>
    /\ \E id \in DOMAIN contexts :
          IsExpired(contexts[id], now) /\ Listed(session_contexts, id)
\* reader holds the read guard of index `kind` and awaits contexts.read(),
\* writer holds contexts.write() and awaits the write guard of that index
LockCycle(reader, writer, kind) ==
    /\ reader # writer
    /\ reader \in idxReaders[kind]
    /\ AwaitedLock(reader) = {"contexts"}
    /\ ctxWriter = writer
    /\ AwaitedLock(writer) = {kind}

\* C29: the store cannot deadlock: in no reachable state does one task hold
\* an index lock and wait for the lock of the primary map while another
\* holds the lock of the primary map and waits for that index lock, so
\* every operation that has started can still complete.
StoreDeadlockFreedom ==
    \A reader, writer \in Tasks : \A kind \in {"session", "user", "domain"} :
        ~LockCycle(reader, writer, kind)
\* the checks of the log that passed in the window of 60 seconds opened by
\* the check at position j
PassedInWindow(log, j) ==
    {i \in j..Len(log) : log[i][2] /\ log[i][1] - log[j][1] < RateWindow}

\* a call of the user has passed its rate check and has not yet counted
\* itself: it waits for a permit or has just been given one
Uncounted(user_id) ==
    {r \in Reqs : ruser[r] = user_id /\ rpc[r] \in {"waiting", "granted"}}

\* C30: with rate limiting enabled, whatever the interleaving of the calls
\* of one user, at most max_requests_per_minute of the rate checks made
\* inside one window of 60 seconds pass, and no rate check of a user is
\* made while another call of that user has been checked and not counted.
RateLimitUnderConcurrency ==
    \A u \in UserIds :
        /\ \A j \in 1..Len(rate_log[u]) :
               Cardinality(PassedInWindow(rate_log[u], j))
                   <= config.max_requests_per_minute
        /\ config.enable_rate_limiting => Cardinality(Uncounted(u)) <= 1
\* the outcome of the rate check that the step has just made for the user
LastCheckPassed(user_id) == rate_log'[user_id][Len(rate_log'[user_id])][2]

MaxSchedule == 2     \* calls in a schedule of later calls

\* check_rate_limit of a call made at time `at` on the table `counts`
RateCheckOn(counts, at, user_id) ==
    IF user_id \in DOMAIN counts
    THEN IF counts[user_id][2] < at - RateWindow THEN "Ok"
         ELSE IF counts[user_id][1] >= config.max_requests_per_minute
              THEN "RateLimitExceeded"
              ELSE "Ok"
    ELSE "Ok"

\* increment_request_count of a call made at time `at` on the table `counts`
IncrementedOn(counts, at, user_id) ==
    LET entry == IF user_id \in DOMAIN counts THEN counts[user_id] ELSE <<0, at>>
    IN (user_id :> <<entry[1] + 1, at>>) @@ counts

\* the accept/reject decisions of calls of one user made one after the
\* other at the given times, starting from the table `counts`
RECURSIVE Decisions(_, _, _)
Decisions(counts, user_id, times) ==
    IF times = <<>> THEN <<>>
    ELSE LET at == Head(times)
             ok == RateCheckOn(counts, at, user_id) = "Ok"
             after == IF ok THEN IncrementedOn(counts, at, user_id) ELSE counts
         IN <<ok>> \o Decisions(after, user_id, Tail(times))

\* the times of up to MaxSchedule later calls, now or one tick from now
Schedules ==
    LET times == {now, now + TickSeconds}
        all == UNION {[1..n -> times] : n \in 1..MaxSchedule}
    IN {sch \in all : \A i \in 1..(Len(sch) - 1) : sch[i] <= sch[i + 1]}

\* C32: cleanup_expired_request_counts removes exactly the users whose
\* last_seen is more than 60 seconds old and leaves the other entries as
\* they were, and the accept/reject decisions of any later calls of a user
\* are the same from the table it leaves as from the table it found.
CleanupTransparency ==
    [][CleanupExpiredRequestCounts =>
          /\ DOMAIN user_request_counts' =
                 {u \in DOMAIN user_request_counts :
                     now - user_request_counts[u][2] <= RateWindow}
          /\ \A u \in DOMAIN user_request_counts' :
                 user_request_counts'[u] = user_request_counts[u]
          /\ \A u \in UserIds : \A sch \in Schedules :
                 Decisions(user_request_counts', u, sch)
                     = Decisions(user_request_counts, u, sch)]_vars
\* Time for the calls under way: as ProcTick, and the clock also runs on
\* past the horizon for as long as the timeouts of some call are armed.
LiveTick ==
    /\ now < ProcMaxTicks * TickSeconds \/ \E r \in Reqs : rpc[r] = "selecting"
    /\ \A r \in Reqs : rpc[r] # "granted"
    /\ \A r \in Reqs : rpc[r] = "selecting" => now < Deadline(r)
    /\ now' = now + TickSeconds
    /\ ret' = NoRet
    /\ UNCHANGED <<storeVars, procVars, selVars>>

MaxLiveCalls == 3     \* process_request calls in a behaviour of SpecLive

NextLive ==
    \/ LiveTick
    \/ \E r \in Reqs, u \in UserIds : calls < MaxLiveCalls /\ ProcessRequest(r, u)
    \/ \E r \in Reqs : IncrementRequestCount(r)
    \/ \E r \in Reqs : SelectOk(r)
    \/ \E r \in Reqs : SelectErr(r)
    \/ \E r \in Reqs : SelectionTimeout(r)
    \/ \E r \in Reqs : RequestTimeout(r)

\* Fair scheduling: a call that holds a permit runs on to its timeouts.
\* Timers that fire: time passes, and a timeout whose deadline has come
\* returns.  Nothing is assumed about select_contexts returning.
Fairness ==
    /\ WF_vars(LiveTick)
    /\ \A r \in Reqs :
          /\ WF_vars(IncrementRequestCount(r))
          /\ WF_vars(SelectionTimeout(r))
          /\ WF_vars(RequestTimeout(r))

SpecLive == InitProc /\ [][NextLive]_vars /\ Fairness

\* C33: under fair scheduling and timers that fire, every process_request
\* call that has started returns: no call stays for ever waiting for a
\* permit, holding a fresh permit or selecting.
EveryCallReturns ==
    \A r \in Reqs : (rpc[r] # "idle") ~> (rpc[r] = "idle")

\* every caller but one is queued for a permit behind a call that is
\* selecting and whose select_contexts has not returned by its deadline
EveryCallReturnsWitness ==
    /\ Len(waiters) = Cardinality(Reqs) - 1
    /\ \E r \in Reqs : rpc[r] = "selecting" /\ now >= Deadline(r)
\* C34: expires_at of a stored record is its creation time plus the TTL of
\* the store and no step changes it, and a record whose expires_at has
\* passed is returned by no lookup after any further step, whether that step
\* updates it, removes it or lets time pass.
ExpiryMonotone ==
    [][\A id \in DOMAIN contexts :
          /\ contexts[id].expires_at = contexts[id].created_at + ContextTtl
          /\ id \in DOMAIN contexts' =>
                 contexts'[id].expires_at = contexts[id].expires_at
          /\ IsExpired(contexts[id], now) => ReturnedByNone(id)']_vars

\* a record was updated after its expires_at had passed: it is still
\* stored and listed, and no lookup returns it
ExpiryMonotoneWitness ==
    \E id \in DOMAIN contexts :
        /\ contexts[id].version > 1
        /\ contexts[id].updated_at > contexts[id].expires_at
        /\ id \in Elems(session_contexts[contexts[id].session_id])
        /\ ReturnedByNone(id)
(***************************************************************************)
(* Two users who ask the same query in the same domain, over contexts of   *)
(* two domains.                                                            *)
(***************************************************************************)
ScopeCreateInputs == {<<"s1", "u1", "d2", "a", 3>>, <<"s2", "u2", "d1", "a", 9>>}
ScopeSelectInputs == {<<"u1", "s1", "a", "d1">>, <<"u2", "s2", "a", "d1">>}

ScopeConfigs ==
    {DefaultSelectorConfig,
     [DefaultSelectorConfig EXCEPT !.selection_strategy = "PriorityBased",
                                   !.max_contexts_to_return = 1,
                                   !.cache_ttl_seconds = 20]}

InitScope ==
    /\ now = 0
    /\ StoreInit
    /\ config = DefaultConfig /\ ProcInit
    /\ sel_config \in ScopeConfigs /\ SelInit

NextScope ==
    \/ Tick
    \/ \E t \in Tasks, in \in ScopeCreateInputs :
          CreateContext(t, in[1], in[2], in[3], in[4], in[5])
    \/ \E t \in Tasks : UpdateIndexesSession(t)
    \/ \E t \in Tasks : UpdateIndexesUser(t)
    \/ \E t \in Tasks : UpdateIndexesDomain(t)
    \/ \E t \in Tasks, in \in ScopeSelectInputs :
          SelectContexts(t, in[1], in[2], in[3], in[4])
    \/ \E t \in Tasks : SelectCache(t)
    \/ \E t \in Tasks : SelectSession(t)
    \/ \E t \in Tasks : SelectUser(t)
    \/ \E t \in Tasks : SelectDomain(t)
    \/ \E t \in Tasks : SelectRank(t)

SpecScope == InitScope /\ [][NextScope]_vars

\* the contexts that the step has added to the candidates of the call
Gathered(t) == Elems(candidate_contexts'[t]) \ Elems(candidate_contexts[t])

UpdateConfig(new_config) ==
    /\ config' = new_config
    /\ ret' = NoRet
    /\ UNCHANGED <<now, storeVars, selVars, available_permits, waiters,
                   user_request_counts, rpc, ruser, called_at, armed_at, calls,
                   rate_log>>

\* the values of max_concurrent_requests handed to update_config
ConcurrencyChoices == 0..(PoolSize + 1)

\* get_stats; active_requests is the difference as an integer (as usize it
\* panics or wraps when it would be negative)
ProcessorStats ==
    [active_requests |-> config.max_concurrent_requests - available_permits,
     max_concurrent_requests |-> config.max_concurrent_requests,
     available_permits |-> available_permits,
     total_users_tracked |-> Cardinality(DOMAIN user_request_counts),
     rate_limit_enabled |-> config.enable_rate_limiting,
     max_requests_per_minute |-> config.max_requests_per_minute]

NextStats ==
    \/ NextProc
    \/ \E n \in ConcurrencyChoices :
          UpdateConfig([config EXCEPT !.max_concurrent_requests = n])

SpecStats == InitProc /\ [][NextStats]_vars

\* C36: in every reachable state, also after update_config has changed
\* max_concurrent_requests, the statistics of the processor are consistent:
\* active_requests is the number of calls that hold a permit,
\* active_requests and available_permits add up to max_concurrent_requests,
\* and max_concurrent_requests - available_permits is not negative.
StatsConsistency ==
    /\ ProcessorStats.active_requests = Cardinality(Holders)
    /\ ProcessorStats.active_requests + ProcessorStats.available_permits
           = ProcessorStats.max_concurrent_requests
    /\ config.max_concurrent_requests - available_permits >= 0
\* the cache entry of the arguments: <<ids, time stored>>
CacheEntry(args) == query_context_cache[CacheKey(args.query, args.domain)]

\* since the entry of the arguments was stored, a context that matches them
\* has been created or updated, or a context named by the entry has been
\* deleted or has expired
ChangedSinceCached(args) ==
    \/ \E id \in DOMAIN contexts :
          /\ MatchRank(contexts[id], args) < 4
          /\ contexts[id].updated_at > CacheEntry(args)[2]
    \/ \E id \in Elems(CacheEntry(args)[1]) :
          id \notin DOMAIN contexts \/ IsExpired(contexts[id], now)

\* C37: a select_contexts call made after a matching context was created,
\* updated, deleted or has expired does not return a result cached before
\* that change: it returns the list computed from the store as it is now.
NoStaleSelection ==
    [][\A t \in Tasks :
          ( /\ pc[t] = "sel_cache" /\ pc'[t] = "idle"
            /\ ret'.val[1] = "Ok"
            /\ ChangedSinceCached(sel_args[t]) )
          => ret'.val = <<"Ok", FreshSelect(sel_args[t])>>]_vars
(***************************************************************************)
(* The selector with the maintenance calls of its cache, one caller.       *)
(***************************************************************************)
\* clear_cache
ClearCache ==
    /\ query_context_cache' = <<>>
    /\ ret' = NoRet
    /\ UNCHANGED <<now, storeVars, procVars, sel_config, sel_args,
                   candidate_contexts>>

\* clear_expired_cache: retain(|_, (_, cache_time)| now - cache_time < ttl)
ClearExpiredCache ==
    /\ LET ttl == sel_config.cache_ttl_seconds
           kept == {k \in DOMAIN query_context_cache :
                       now - query_context_cache[k][2] < ttl}
       IN query_context_cache' = [k \in kept |-> query_context_cache[k]]
    /\ ret' = NoRet
    /\ UNCHANGED <<now, storeVars, procVars, sel_config, sel_args,
                   candidate_contexts>>

InitCache ==
    /\ now = 0
    /\ StoreInit
    /\ config = DefaultConfig /\ ProcInit
    /\ sel_config \in SelConfigs /\ SelInit

NextCache ==
    \/ Tick
    \/ \E in \in SelCreateInputs :
          CreateContext(Caller, in[1], in[2], in[3], in[4], in[5])
    \/ UpdateIndexesSession(Caller)
    \/ UpdateIndexesUser(Caller)
    \/ UpdateIndexesDomain(Caller)
    \/ \E in \in SelectInputs :
          SelectContexts(Caller, in[1], in[2], in[3], in[4])
    \/ SelectCache(Caller)
    \/ SelectSession(Caller)
    \/ SelectUser(Caller)
    \/ SelectDomain(Caller)
    \/ SelectRank(Caller)
    \/ ClearCache
    \/ ClearExpiredCache

SpecCache == InitCache /\ [][NextCache]_vars

\* the cache holds an entry for the arguments that is less than
\* cache_ttl_seconds old
FreshEntry(args) ==
    LET cache_key == CacheKey(args.query, args.domain)
    IN /\ cache_key \in DOMAIN query_context_cache
       /\ now - query_context_cache[cache_key][2] < sel_config.cache_ttl_seconds

\* C38: the cache check of select_contexts returns at once exactly when
\* caching is enabled and the entry of the query and domain is less than
\* cache_ttl_seconds old, and goes on to the lookups otherwise (no entry,
\* an entry that old or older, caching disabled); a call that has computed
\* its result stores it with the current time when caching is enabled;
\* clear_cache empties the cache; clear_expired_cache removes exactly the
\* entries that are cache_ttl_seconds old or older.
CacheLifetime ==
    [][/\ \A t \in Tasks :
             /\ (pc[t] = "sel_cache" /\ pc'[t] # pc[t]) =>
                    /\ pc'[t] \in {"idle", "sel_session"}
                    /\ pc'[t] = "idle" <=>
                           (sel_config.enable_cache /\ FreshEntry(sel_args[t]))
             /\ (pc[t] = "sel_rank" /\ pc'[t] = "idle") =>
                    IF sel_config.enable_cache
                    THEN /\ ret'.val[1] = "Ok"
                         /\ query_context_cache'[CacheKey(sel_args[t].query,
                                                           sel_args[t].domain)]
                                = <<IdsOf(ret'.val[2]), now>>
                    ELSE query_context_cache' = query_context_cache
       /\ ClearCache => DOMAIN query_context_cache' = {}
       /\ ClearExpiredCache =>
             /\ DOMAIN query_context_cache' =
                    {k \in DOMAIN query_context_cache :
                        ~(now - query_context_cache[k][2]
                              >= sel_config.cache_ttl_seconds)}
             /\ \A k \in DOMAIN query_context_cache' :
                    query_context_cache'[k] = query_context_cache[k]]_vars

\* with caching enabled, a call has passed its cache check and gone on to
\* the lookups although the cache holds an entry for its query and domain:
\* the entry is cache_ttl_seconds old
CacheLifetimeWitness ==
    \E t \in Tasks :
        /\ pc[t] = "sel_session"
        /\ sel_config.enable_cache
        /\ CacheKey(sel_args[t].query, sel_args[t].domain)
               \in DOMAIN query_context_cache
        /\ now - CacheEntry(sel_args[t])[2] = sel_config.cache_ttl_seconds
(***************************************************************************)
(* The domain-only store, context_management::ContextManager.  Its         *)
(* `contexts` is modelled on the variable contexts (id -> Context) and its *)
(* `domain_context_map` on the variable domain_contexts; the other         *)
(* variables keep their initial values.  Every method takes all its locks  *)
(* before it touches the maps, contexts first, so each is one step.        *)
(***************************************************************************)
MaxListed == 3       \* ids in one Vec of domain_context_map

DomainNames == {"d1", "d2"}

\* the Context values handed to add_context and update_context: the id is
\* the caller's
ContextInputs ==
    [id : 1..MaxIds, domain : DomainNames, content : {"a", "b"},
     tags : {<<>>}, created_at : {0}, updated_at : {0}, version : {1},
     priority : {5}, metadata : {<<>>}]

\* what the methods of the domain-only store leave alone
domainFrame == <<now, nextId, session_contexts, user_contexts, ctxWriter,
                 idxReaders, op, pc, cur, lnow, expired, known, snap,
                 procVars, selVars>>

\* add_context
AddContext(context) ==
    /\ contexts' = (context.id :> context) @@ contexts
    /\ domain_contexts' = EntryPush(domain_contexts, context.domain, context.id)
    /\ ret' = [task |-> None, val |-> <<"Ok">>]
    /\ UNCHANGED domainFrame

\* update_context of the domain-only store: contexts.insert(context.id, context)
ReplaceContext(context) ==
    /\ contexts' = (context.id :> context) @@ contexts
    /\ ret' = [task |-> None, val |-> <<"Ok">>]
    /\ UNCHANGED <<domain_contexts, domainFrame>>

\* remove_context
RemoveContext(id) ==
    /\ IF id \in DOMAIN contexts
       THEN LET removed_context == contexts[id]
            IN /\ contexts' = [i \in DOMAIN contexts \ {id} |-> contexts[i]]
               /\ domain_contexts' =
                      IF removed_context.domain \in DOMAIN domain_contexts
                      THEN [domain_contexts EXCEPT
                               ![removed_context.domain] = Retain(@, id)]
                      ELSE domain_contexts
       ELSE UNCHANGED <<contexts, domain_contexts>>
    /\ ret' = [task |-> None, val |-> <<"Ok">>]
    /\ UNCHANGED domainFrame

\* get_contexts_by_domain
GetContextsByDomain(domain) ==
    IF domain \in DOMAIN domain_contexts
    THEN LET context_ids == domain_contexts[domain]
             found == SelectSeq(context_ids, LAMBDA id : id \in DOMAIN contexts)
         IN [i \in 1..Len(found) |-> contexts[found[i]]]
    ELSE <<>>

\* the Vec of a domain in domain_context_map, empty when there is none
ListedUnder(domain) ==
    IF domain \in DOMAIN domain_contexts THEN domain_contexts[domain] ELSE <<>>

\* The callers add a context under an id that is not in the store (a new
\* Uuid) and update a context that is.
NextDomain ==
    \/ \E context \in ContextInputs :
          /\ context.id \notin DOMAIN contexts
          /\ Len(ListedUnder(context.domain)) < MaxListed
          /\ AddContext(context)
    \/ \E context \in ContextInputs :
          /\ context.id \in DOMAIN contexts
          /\ ReplaceContext(context)
    \/ \E id \in 1..MaxIds : RemoveContext(id)

SpecDomain == Init /\ [][NextDomain]_vars

\* how many times the id is in the list
CountIn(ids, id) == Cardinality({i \in 1..Len(ids) : ids[i] = id})

\* C39: in the domain-only store, after any sequence of add_context,
\* update_context and remove_context, an id is in contexts exactly when
\* domain_context_map lists it, and it is then listed once, under the domain
\* of the stored context and under no other; get_contexts_by_domain(d)
\* returns exactly the stored contexts of domain d, each once.
DomainIndexConsistency ==
    /\ \A id \in DOMAIN contexts : \A d \in DomainNames :
           CountIn(ListedUnder(d), id) = (IF contexts[id].domain = d THEN 1 ELSE 0)
    /\ \A d \in DomainNames :
           Elems(ListedUnder(d)) \subseteq DOMAIN contexts
    /\ \A d \in DomainNames :
           LET got == GetContextsByDomain(d)
           IN /\ Elems(got) = {contexts[id] : id \in
                                  {i \in DOMAIN contexts : contexts[i].domain = d}}
              /\ Len(got) = Cardinality(Elems(got))
====
